---- MODULE Spec2Model ----
(***************************************************************************)
(* Model of the polyarb detection core: the single-market detector         *)
(* (ArbitrageDetector, src/src/arbDetector.ts) and the cross-market        *)
(* detector with its reference-price lifecycle (CrossMarketDetector,       *)
(* src/src/binanceApi.ts).                                                 *)
(*                                                                         *)
(* Numbers.  Prices and profits are integers in units of $0.001, so $1.00  *)
(* is 1000 and the default minProfit 0.001 is 1.  Sizes, liquidity and     *)
(* reference prices are integers in their own unit.  A decimal string of   *)
(* the feed is represented by the number it denotes.  A JavaScript null or *)
(* undefined is the value Null.                                            *)
(*                                                                         *)
(* Maps.  A JavaScript Map whose iteration order is observable is a        *)
(* sequence of [key, value] entries in insertion order; a Map that is only *)
(* looked up is a function whose DOMAIN is its key set.                    *)
(***************************************************************************)
EXTENDS Integers, Sequences, FiniteSets, TLC

VARIABLES
  marketPairs,    \* ArbitrageDetector.marketPairs : tokenId -> MarketPair
  marketLookup,   \* ArbitrageDetector.marketLookup : marketId -> MarketPair
  tokenPrices,    \* ArbitrageDetector.tokenPrices : tokenId -> TokenPrice
  config,         \* ArbitrageDetector.config
  xTokenPrices,   \* CrossMarketDetector.tokenPrices
  marketInfos,    \* CrossMarketDetector.marketInfos : slug -> MarketInfo
  minProfit,      \* CrossMarketDetector.minProfit
  pricesLoaded,   \* CrossMarketDetector.pricesLoaded
  refPriceCache,  \* CrossMarketDetector.refPriceCache : slug -> number
  runs,           \* loadReferencePrices calls suspended at their await
  bestNearMiss,   \* ArbitrageDetector.bestNearMiss
  opportunitiesFound, \* PolyArbScanner.opportunitiesFound
  executionEnabled,   \* PolyArbScanner.executionEnabled && executor
  isExecuting,    \* PolyArbScanner.isExecuting
  notified,       \* notifyOpportunity calls made
  executions,     \* executeArbitrage calls in flight
  executor,       \* ArbitrageExecutor: config and counters
  tradeResult,    \* what the last execute call returned
  orders,         \* the orders the last execute call posted or simulated
  websocket,      \* PolymarketWebSocket: ws, isConnected, reconnectAttempts, subscribedTokens
  sockets,        \* the WebSocket objects not yet closed: readyState, subscriptions received
  timers,         \* reconnect timeouts that are pending
  emitted,        \* whether 'maxReconnectAttempts' has been emitted
  riskManager,    \* RiskManager: config, positions, dailyStats, totalExposure, killSwitchActive
  now,            \* the clock read by new Date()
  lastOp,         \* the public call that returned last, with its arguments
  result          \* what that call returned: <<>> is null, else the opportunities

vars == <<marketPairs, marketLookup, tokenPrices, config, bestNearMiss, xTokenPrices,
          marketInfos, minProfit, pricesLoaded, refPriceCache, runs,
          opportunitiesFound, executionEnabled, isExecuting, notified, executions,
          executor, tradeResult, orders,
          websocket, sockets, timers, emitted, riskManager,
          now, lastOp, result>>

singleVars == <<marketPairs, marketLookup, tokenPrices, config, bestNearMiss>>
execVars == <<opportunitiesFound, executionEnabled, isExecuting, notified, executions>>
tradeVars == <<executor, tradeResult, orders>>
wsVars == <<websocket, sockets, timers, emitted>>
riskVars == <<riskManager>>
sideVars == <<tradeVars, wsVars, riskVars>>
crossVars == <<xTokenPrices, marketInfos, minProfit, pricesLoaded,
               refPriceCache, runs>>

-----------------------------------------------------------------------------
(* JavaScript values *)

Null == -1

\* !x for x : number | null
Falsy(x) == x = Null \/ x = 0

\* a ?? b
Coalesce(a, b) == IF a # Null THEN a ELSE b

Min(a, b) == IF a <= b THEN a ELSE b

Abs(a) == IF a < 0 THEN -a ELSE a

Range(s) == {s[i] : i \in 1..Len(s)}

\* Map as a sequence of entries
MapHas(m, k) == \E i \in 1..Len(m) : m[i].key = k

MapGet(m, k) == m[CHOOSE i \in 1..Len(m) : m[i].key = k].value

MapSet(m, k, v) ==
  IF MapHas(m, k)
  THEN [i \in 1..Len(m) |-> IF m[i].key = k THEN [key |-> k, value |-> v] ELSE m[i]]
  ELSE Append(m, [key |-> k, value |-> v])

\* Array.prototype.sort with comparator (a, b) => b[fld] - a[fld]: a stable
\* descending sort, computed by stable insertion.
RECURSIVE InsertDesc(_, _, _)
InsertDesc(sorted, x, fld) ==
  IF sorted = <<>> THEN <<x>>
  ELSE IF Head(sorted)[fld] >= x[fld]
       THEN <<Head(sorted)>> \o InsertDesc(Tail(sorted), x, fld)
       ELSE <<x>> \o sorted

RECURSIVE SortDesc(_, _)
SortDesc(s, fld) ==
  IF s = <<>> THEN <<>>
  ELSE InsertDesc(SortDesc(SubSeq(s, 1, Len(s) - 1), fld), s[Len(s)], fld)

-----------------------------------------------------------------------------
(* Markets, pairs and the feed *)

One == 1000

\* GammaMarket objects as the discovery collaborator delivers them.  slug,
\* endDate (milliseconds) and interval (the metadata set by the series
\* endpoint, "none" when absent) are read by the cross-market detector.
M1 == [id |-> "m1", slug |-> "btc-updown-15m-0", liquidityNum |-> 1000,
       endDate |-> 900000, interval |-> "none"]
M1Thin == [M1 EXCEPT !.liquidityNum = 100]
M2 == [id |-> "m2", slug |-> "bitcoin-up-or-down-1h", liquidityNum |-> 1000,
       endDate |-> 900000, interval |-> "1h"]
M3 == [id |-> "m3", slug |-> "btc-up-or-down-4h-x", liquidityNum |-> 1000,
       endDate |-> 1100000, interval |-> "none"]
\* a 4h series market resolving with M1 and M2
M4 == [id |-> "m4", slug |-> "btc-updown-4h-0", liquidityNum |-> 1000,
       endDate |-> 900000, interval |-> "4h"]
\* a 15m market whose slug names the candle start 900 s and whose endDate is
\* 60 s after the candle's nominal end
M5 == [id |-> "m5", slug |-> "btc-updown-15m-900", liquidityNum |-> 1000,
       endDate |-> 1860000, interval |-> "none"]
\* a market that is not an up/down market
M0 == [id |-> "m0", slug |-> "will-it-rain", liquidityNum |-> 1000,
       endDate |-> 900000, interval |-> "none"]

\* createMarketPairs: clobTokenIds[0] is YES, clobTokenIds[1] is NO
P1 == [market |-> M1, yesTokenId |-> "t1", noTokenId |-> "t2"]
P1Thin == [market |-> M1Thin, yesTokenId |-> "t1", noTokenId |-> "t2"]
P2 == [market |-> M2, yesTokenId |-> "t3", noTokenId |-> "t4"]
P3 == [market |-> M3, yesTokenId |-> "t5", noTokenId |-> "t6"]
P4 == [market |-> M4, yesTokenId |-> "t7", noTokenId |-> "t8"]
P0 == [market |-> M0, yesTokenId |-> "t9", noTokenId |-> "t10"]
P5 == [market |-> M5, yesTokenId |-> "t11", noTokenId |-> "t12"]

Level(p, s) == [price |-> p, size |-> s]

Book(asks, bids) == [asks |-> asks, bids |-> bids]

Update(tok, ask, askSize, bid, bidSize, ts) ==
  [tokenId |-> tok, bestAsk |-> ask, bestAskSize |-> askSize,
   bestBid |-> bid, bestBidSize |-> bidSize, timestamp |-> ts]

-----------------------------------------------------------------------------
(* clobApi.ts and websocket.ts: reading a book *)

\* index of the first level with the lowest price: what a stable ascending
\* sort puts first
BestAskIndex(levels) ==
  CHOOSE i \in 1..Len(levels) :
    /\ \A j \in 1..Len(levels) : levels[i].price <= levels[j].price
    /\ \A j \in 1..(i - 1) : levels[j].price > levels[i].price

BestBidIndex(levels) ==
  CHOOSE i \in 1..Len(levels) :
    /\ \A j \in 1..Len(levels) : levels[i].price >= levels[j].price
    /\ \A j \in 1..(i - 1) : levels[j].price < levels[i].price

\* a null result is the level with both fields Null, so that
\* bestAsk?.price ?? null reads .price
getBestAsk(book) ==
  IF Len(book.asks) = 0 THEN Level(Null, Null)
  ELSE book.asks[BestAskIndex(book.asks)]

getBestBid(book) ==
  IF Len(book.bids) = 0 THEN Level(Null, Null)
  ELSE book.bids[BestBidIndex(book.bids)]

\* PolymarketWebSocket.parseBookUpdate: the first level of each side
parseBookUpdate(tok, msg, ts) ==
  Update(tok,
         IF Len(msg.asks) > 0 THEN msg.asks[1].price ELSE Null,
         IF Len(msg.asks) > 0 THEN msg.asks[1].size ELSE Null,
         IF Len(msg.bids) > 0 THEN msg.bids[1].price ELSE Null,
         IF Len(msg.bids) > 0 THEN msg.bids[1].size ELSE Null,
         ts)

\* handleMessage, event_type price_change: prices only, sizes null; an
\* absent or empty best_ask / best_bid string is Null here and stays null
parsePriceChange(tok, bestAsk, bestBid, ts) ==
  Update(tok,
         IF bestAsk # Null THEN bestAsk ELSE Null, Null,
         IF bestBid # Null THEN bestBid ELSE Null, Null,
         ts)

\* the record stored by updateFromOrderBook
SnapshotRecord(book, ts) ==
  [bestAsk |-> getBestAsk(book).price, bestAskSize |-> getBestAsk(book).size,
   bestBid |-> getBestBid(book).price, bestBidSize |-> getBestBid(book).size,
   lastUpdate |-> ts]

\* variant: the update's fields replace the record
MergedRecord_overwrite(tp, update) ==
  [bestAsk |-> update.bestAsk, bestAskSize |-> update.bestAskSize,
   bestBid |-> update.bestBid, bestBidSize |-> update.bestBidSize,
   lastUpdate |-> update.timestamp]

\* the record stored by updateFromWebSocket
MergedRecord(tp, update) ==
  LET has == update.tokenId \in DOMAIN tp
      ex == IF has THEN tp[update.tokenId]
            ELSE [bestAsk |-> Null, bestAskSize |-> Null, bestBid |-> Null,
                  bestBidSize |-> Null, lastUpdate |-> Null]
  IN [bestAsk |-> Coalesce(update.bestAsk, ex.bestAsk),
      bestAskSize |-> Coalesce(update.bestAskSize, ex.bestAskSize),
      bestBid |-> Coalesce(update.bestBid, ex.bestBid),
      bestBidSize |-> Coalesce(update.bestBidSize, ex.bestBidSize),
      lastUpdate |-> update.timestamp]

\* Map.set on a lookup-only Map
Put(f, k, v) == [x \in DOMAIN f \cup {k} |-> IF x = k THEN v ELSE f[x]]

\* tokenPrices.get(t)?.field : Null when the token has no record
Field(tp, t, fld) == IF t \in DOMAIN tp THEN tp[t][fld] ELSE Null

-----------------------------------------------------------------------------
(* ArbitrageDetector *)

\* the maps built by setMarketPairs(pairs)
RECURSIVE BuildMarketPairs(_, _)
BuildMarketPairs(m, pairs) ==
  IF pairs = <<>> THEN m
  ELSE BuildMarketPairs(
         MapSet(MapSet(m, Head(pairs).yesTokenId, Head(pairs)),
                Head(pairs).noTokenId, Head(pairs)),
         Tail(pairs))

RECURSIVE BuildMarketLookup(_, _)
BuildMarketLookup(m, pairs) ==
  IF pairs = <<>> THEN m
  ELSE BuildMarketLookup(MapSet(m, Head(pairs).market.id, Head(pairs)), Tail(pairs))

\* variant: a profit equal to the threshold is rejected
checkBuyBothArbitrage_strict(mp, tp, cfg, tokenId) ==
  IF ~MapHas(mp, tokenId) THEN <<>>
  ELSE
    LET pair == MapGet(mp, tokenId)
        yesAsk == Field(tp, pair.yesTokenId, "bestAsk")
        noAsk == Field(tp, pair.noTokenId, "bestAsk")
        totalCost == yesAsk + noAsk
        profit == One - totalCost
        yesSize == Coalesce(Field(tp, pair.yesTokenId, "bestAskSize"), 0)
        noSize == Coalesce(Field(tp, pair.noTokenId, "bestAskSize"), 0)
        maxShares == Min(yesSize, noSize)
    IN IF Falsy(yesAsk) \/ Falsy(noAsk) THEN <<>>
       ELSE IF profit <= cfg.minProfit THEN <<>>
       ELSE IF pair.market.liquidityNum < cfg.minLiquidity THEN <<>>
       ELSE IF maxShares <= 0 THEN <<>>
       ELSE <<[type |-> "BUY_BOTH", market |-> pair.market,
               yesAskPrice |-> yesAsk, noAskPrice |-> noAsk,
               yesBidPrice |-> Field(tp, pair.yesTokenId, "bestBid"),
               noBidPrice |-> Field(tp, pair.noTokenId, "bestBid"),
               totalCost |-> totalCost, profit |-> profit,
               yesAskSize |-> yesSize, noAskSize |-> noSize,
               yesBidSize |-> Field(tp, pair.yesTokenId, "bestBidSize"),
               noBidSize |-> Field(tp, pair.noTokenId, "bestBidSize"),
               maxShares |-> maxShares]>>

checkBuyBothArbitrage(mp, tp, cfg, tokenId) ==
  IF ~MapHas(mp, tokenId) THEN <<>>
  ELSE
    LET pair == MapGet(mp, tokenId)
        yesAsk == Field(tp, pair.yesTokenId, "bestAsk")
        noAsk == Field(tp, pair.noTokenId, "bestAsk")
        totalCost == yesAsk + noAsk
        profit == One - totalCost
        yesSize == Coalesce(Field(tp, pair.yesTokenId, "bestAskSize"), 0)
        noSize == Coalesce(Field(tp, pair.noTokenId, "bestAskSize"), 0)
        maxShares == Min(yesSize, noSize)
    IN IF Falsy(yesAsk) \/ Falsy(noAsk) THEN <<>>
       ELSE IF profit < cfg.minProfit THEN <<>>
       ELSE IF pair.market.liquidityNum < cfg.minLiquidity THEN <<>>
       ELSE IF maxShares <= 0 THEN <<>>
       ELSE <<[type |-> "BUY_BOTH", market |-> pair.market,
               yesAskPrice |-> yesAsk, noAskPrice |-> noAsk,
               yesBidPrice |-> Field(tp, pair.yesTokenId, "bestBid"),
               noBidPrice |-> Field(tp, pair.noTokenId, "bestBid"),
               totalCost |-> totalCost, profit |-> profit,
               yesAskSize |-> yesSize, noAskSize |-> noSize,
               yesBidSize |-> Field(tp, pair.yesTokenId, "bestBidSize"),
               noBidSize |-> Field(tp, pair.noTokenId, "bestBidSize"),
               maxShares |-> maxShares]>>

\* variant: the liquidity gate is missing
checkSellBothArbitrage_anyLiquidity(mp, tp, cfg, tokenId) ==
  IF ~MapHas(mp, tokenId) THEN <<>>
  ELSE
    LET pair == MapGet(mp, tokenId)
        yesBid == Field(tp, pair.yesTokenId, "bestBid")
        noBid == Field(tp, pair.noTokenId, "bestBid")
        totalBids == yesBid + noBid
        profit == totalBids - One
        yesSize == Coalesce(Field(tp, pair.yesTokenId, "bestBidSize"), 0)
        noSize == Coalesce(Field(tp, pair.noTokenId, "bestBidSize"), 0)
        maxShares == Min(yesSize, noSize)
    IN IF Falsy(yesBid) \/ Falsy(noBid) THEN <<>>
       ELSE IF profit < cfg.minProfit THEN <<>>
       ELSE IF maxShares <= 0 THEN <<>>
       ELSE <<[type |-> "SELL_BOTH", market |-> pair.market,
               yesAskPrice |-> Coalesce(Field(tp, pair.yesTokenId, "bestAsk"), 0),
               noAskPrice |-> Coalesce(Field(tp, pair.noTokenId, "bestAsk"), 0),
               yesBidPrice |-> yesBid, noBidPrice |-> noBid,
               totalCost |-> One, profit |-> profit,
               yesAskSize |-> Coalesce(Field(tp, pair.yesTokenId, "bestAskSize"), 0),
               noAskSize |-> Coalesce(Field(tp, pair.noTokenId, "bestAskSize"), 0),
               yesBidSize |-> yesSize, noBidSize |-> noSize,
               maxShares |-> maxShares]>>

checkSellBothArbitrage(mp, tp, cfg, tokenId) ==
  IF ~MapHas(mp, tokenId) THEN <<>>
  ELSE
    LET pair == MapGet(mp, tokenId)
        yesBid == Field(tp, pair.yesTokenId, "bestBid")
        noBid == Field(tp, pair.noTokenId, "bestBid")
        totalBids == yesBid + noBid
        profit == totalBids - One
        yesSize == Coalesce(Field(tp, pair.yesTokenId, "bestBidSize"), 0)
        noSize == Coalesce(Field(tp, pair.noTokenId, "bestBidSize"), 0)
        maxShares == Min(yesSize, noSize)
    IN IF Falsy(yesBid) \/ Falsy(noBid) THEN <<>>
       ELSE IF profit < cfg.minProfit THEN <<>>
       ELSE IF pair.market.liquidityNum < cfg.minLiquidity THEN <<>>
       ELSE IF maxShares <= 0 THEN <<>>
       ELSE <<[type |-> "SELL_BOTH", market |-> pair.market,
               yesAskPrice |-> Coalesce(Field(tp, pair.yesTokenId, "bestAsk"), 0),
               noAskPrice |-> Coalesce(Field(tp, pair.noTokenId, "bestAsk"), 0),
               yesBidPrice |-> yesBid, noBidPrice |-> noBid,
               totalCost |-> One, profit |-> profit,
               yesAskSize |-> Coalesce(Field(tp, pair.yesTokenId, "bestAskSize"), 0),
               noAskSize |-> Coalesce(Field(tp, pair.noTokenId, "bestAskSize"), 0),
               yesBidSize |-> yesSize, noBidSize |-> noSize,
               maxShares |-> maxShares]>>

\* variant: SELL_BOTH is checked first
checkAllArbitrageTypes_sellFirst(mp, tp, cfg, tokenId) ==
  LET buyBoth == checkBuyBothArbitrage(mp, tp, cfg, tokenId)
      sellBoth == checkSellBothArbitrage(mp, tp, cfg, tokenId)
  IN IF sellBoth # <<>> THEN sellBoth
     ELSE IF buyBoth # <<>> THEN buyBoth
     ELSE <<>>

checkAllArbitrageTypes(mp, tp, cfg, tokenId) ==
  LET buyBoth == checkBuyBothArbitrage(mp, tp, cfg, tokenId)
      sellBoth == checkSellBothArbitrage(mp, tp, cfg, tokenId)
  IN IF buyBoth # <<>> THEN buyBoth
     ELSE IF sellBoth # <<>> THEN sellBoth
     ELSE <<>>

\* the loop of scanAllMarkets over the entries of marketPairs
RECURSIVE ScanLoop(_, _, _, _, _, _)
ScanLoop(mp, tp, cfg, i, checkedMarkets, opportunities) ==
  IF i > Len(mp) THEN opportunities
  ELSE IF mp[i].value.market.id \in checkedMarkets
       THEN ScanLoop(mp, tp, cfg, i + 1, checkedMarkets, opportunities)
       ELSE ScanLoop(mp, tp, cfg, i + 1,
                     checkedMarkets \cup {mp[i].value.market.id},
                     opportunities \o checkAllArbitrageTypes(mp, tp, cfg, mp[i].key))

\* variant: the opportunities are returned in the order they were found
scanAllMarkets_unsorted(mp, tp, cfg) ==
  ScanLoop(mp, tp, cfg, 1, {}, <<>>)

scanAllMarkets(mp, tp, cfg) ==
  SortDesc(ScanLoop(mp, tp, cfg, 1, {}, <<>>), "profit")

\* BUY_BOTH near miss of one market: <<>> when an ask is missing, the sizes
\* give no shares or the market is below minLiquidity
nearMissBuyBoth(pair, tp, cfg) ==
  LET yesAsk == Field(tp, pair.yesTokenId, "bestAsk")
      noAsk == Field(tp, pair.noTokenId, "bestAsk")
      maxShares == Min(Coalesce(Field(tp, pair.yesTokenId, "bestAskSize"), 0),
                       Coalesce(Field(tp, pair.noTokenId, "bestAskSize"), 0))
  IN IF Falsy(yesAsk) \/ Falsy(noAsk) THEN <<>>
     ELSE IF maxShares > 0 /\ pair.market.liquidityNum >= cfg.minLiquidity
     THEN <<[market |-> pair.market, type |-> "BUY_BOTH",
             totalCost |-> yesAsk + noAsk,
             totalBids |-> Coalesce(Field(tp, pair.yesTokenId, "bestBid"), 0)
                           + Coalesce(Field(tp, pair.noTokenId, "bestBid"), 0),
             profitGap |-> One - (yesAsk + noAsk),
             yesPrice |-> yesAsk, noPrice |-> noAsk, maxShares |-> maxShares]>>
     ELSE <<>>

\* SELL_BOTH near miss of one market
nearMissSellBoth(pair, tp, cfg) ==
  LET yesBid == Field(tp, pair.yesTokenId, "bestBid")
      noBid == Field(tp, pair.noTokenId, "bestBid")
      maxShares == Min(Coalesce(Field(tp, pair.yesTokenId, "bestBidSize"), 0),
                       Coalesce(Field(tp, pair.noTokenId, "bestBidSize"), 0))
  IN IF Falsy(yesBid) \/ Falsy(noBid) THEN <<>>
     ELSE IF maxShares > 0 /\ pair.market.liquidityNum >= cfg.minLiquidity
     THEN <<[market |-> pair.market, type |-> "SELL_BOTH",
             totalCost |-> One, totalBids |-> yesBid + noBid,
             profitGap |-> (yesBid + noBid) - One,
             yesPrice |-> yesBid, noPrice |-> noBid, maxShares |-> maxShares]>>
     ELSE <<>>

\* variant: the first candidate found is kept
keepBetter_first(best, candidate) ==
  IF candidate = <<>> THEN best
  ELSE IF best = <<>> THEN candidate
  ELSE best

\* if (!bestNearMiss || profitGap > bestNearMiss.profitGap) bestNearMiss = ...
keepBetter(best, candidate) ==
  IF candidate = <<>> THEN best
  ELSE IF best = <<>> \/ candidate[1].profitGap > best[1].profitGap THEN candidate
  ELSE best

\* the loop of findBestNearMiss over the entries of marketPairs
RECURSIVE NearMissLoop(_, _, _, _, _, _)
NearMissLoop(mp, tp, cfg, i, checkedMarkets, best) ==
  IF i > Len(mp) THEN best
  ELSE IF mp[i].value.market.id \in checkedMarkets
       THEN NearMissLoop(mp, tp, cfg, i + 1, checkedMarkets, best)
       ELSE NearMissLoop(mp, tp, cfg, i + 1,
                         checkedMarkets \cup {mp[i].value.market.id},
                         keepBetter(keepBetter(best, nearMissBuyBoth(mp[i].value, tp, cfg)),
                                    nearMissSellBoth(mp[i].value, tp, cfg)))

findBestNearMiss(mp, tp, cfg) == NearMissLoop(mp, tp, cfg, 1, {}, <<>>)

\* variant: an entry exactly maxAgeMs old is removed as well
clearStaleData_inclusive(tp, clock, maxAgeMs) ==
  [t \in {k \in DOMAIN tp : ~(clock - tp[k].lastUpdate >= maxAgeMs)} |-> tp[t]]

\* clearStaleData: tokenPrices after the loop that deletes each entry with
\* now - lastUpdate > maxAgeMs
clearStaleData(tp, clock, maxAgeMs) ==
  [t \in {k \in DOMAIN tp : ~(clock - tp[k].lastUpdate > maxAgeMs)} |-> tp[t]]

-----------------------------------------------------------------------------
(* CrossMarketDetector: market metadata *)

\* What the regular expressions and substring tests of parseMarketInfo,
\* parseSeriesMarket and parseDescriptiveSlug find in each slug of the model:
\*   updown      the groups of /^([a-z]+)-updown-(15m|30m|1h|4h|1d)-(\d+)$/i,
\*               <<>> when the slug does not match
\*   descriptive the slug matches /^(bitcoin|ethereum|solana|xrp|btc|eth|sol)-up-or-down-(.+)$/i
\*   asset       the asset chosen by the includes / startsWith chain, "" when none
\*   has4h, hasDaily   slug.includes('-4h-'), slug.includes('-daily-')
SlugFacts(slug) ==
  CASE slug = "btc-updown-15m-0" ->
         [updown |-> <<[asset |-> "btc", interval |-> "15m", timestamp |-> 0]>>,
          descriptive |-> FALSE, asset |-> "btc", has4h |-> FALSE, hasDaily |-> FALSE]
    [] slug = "btc-updown-15m-900" ->
         [updown |-> <<[asset |-> "btc", interval |-> "15m", timestamp |-> 900]>>,
          descriptive |-> FALSE, asset |-> "btc", has4h |-> FALSE, hasDaily |-> FALSE]
    [] slug = "btc-updown-4h-0" ->
         [updown |-> <<[asset |-> "btc", interval |-> "4h", timestamp |-> 0]>>,
          descriptive |-> FALSE, asset |-> "btc", has4h |-> TRUE, hasDaily |-> FALSE]
    [] slug = "bitcoin-up-or-down-1h" ->
         [updown |-> <<>>, descriptive |-> TRUE, asset |-> "btc",
          has4h |-> FALSE, hasDaily |-> FALSE]
    [] slug = "btc-up-or-down-4h-x" ->
         [updown |-> <<>>, descriptive |-> TRUE, asset |-> "btc",
          has4h |-> TRUE, hasDaily |-> FALSE]
    [] OTHER ->
         [updown |-> <<>>, descriptive |-> FALSE, asset |-> "",
          has4h |-> FALSE, hasDaily |-> FALSE]

\* interval duration in milliseconds, as subtracted by calculateCandleStartTime
IntervalMs(interval) ==
  CASE interval = "15m" -> 15 * 60 * 1000
    [] interval = "30m" -> 30 * 60 * 1000
    [] interval = "1h" -> 60 * 60 * 1000
    [] interval = "4h" -> 4 * 60 * 60 * 1000
    [] interval = "1d" -> 24 * 60 * 60 * 1000
    [] OTHER -> 0

\* Math.floor(ms / 1000)
FloorSeconds(ms) == ms \div 1000

MarketInfo(pair, interval, asset, resolutionTimestamp, candleStartTimestamp) ==
  [pair |-> pair, interval |-> interval, asset |-> asset,
   resolutionTimestamp |-> resolutionTimestamp,
   candleStartTimestamp |-> candleStartTimestamp,
   referencePrice |-> Null]

\* <<>> is a null result
parseSeriesMarket(pair, interval) ==
  LET facts == SlugFacts(pair.market.slug)
  IN IF facts.asset = "" THEN <<>>
     ELSE <<MarketInfo(pair, interval, facts.asset,
                       FloorSeconds(pair.market.endDate),
                       FloorSeconds(pair.market.endDate - IntervalMs(interval)))>>

parseDescriptiveSlug(pair) ==
  LET facts == SlugFacts(pair.market.slug)
      interval == IF facts.has4h THEN "4h" ELSE IF facts.hasDaily THEN "1d" ELSE "1h"
  IN IF facts.asset = "" THEN <<>>
     ELSE <<MarketInfo(pair, interval, facts.asset,
                       FloorSeconds(pair.market.endDate),
                       FloorSeconds(pair.market.endDate - IntervalMs(interval)))>>

parseMarketInfo(pair) ==
  LET facts == SlugFacts(pair.market.slug)
  IN IF pair.market.interval # "none" THEN parseSeriesMarket(pair, pair.market.interval)
     ELSE IF facts.updown # <<>>
          THEN <<MarketInfo(pair, facts.updown[1].interval, facts.updown[1].asset,
                            FloorSeconds(pair.market.endDate),
                            facts.updown[1].timestamp)>>
     ELSE IF facts.descriptive THEN parseDescriptiveSlug(pair)
     ELSE <<>>

-----------------------------------------------------------------------------
(* CrossMarketDetector: evaluation *)

Two == 2000

FallbackShares == 1000

Tolerance == 300

intervalOrder(interval) ==
  CASE interval = "1d" -> 5
    [] interval = "4h" -> 4
    [] interval = "1h" -> 3
    [] interval = "30m" -> 2
    [] interval = "15m" -> 1

\* (price?.bestAsk && !isNaN(price.bestAsk)) ? price.bestAsk : 0
AskOrZero(tp, tok) ==
  IF Falsy(Field(tp, tok, "bestAsk")) THEN 0 ELSE Field(tp, tok, "bestAsk")

\* variant: the cached size is used as it is, 0 when there is none
SizeOrFallback_raw(tp, tok) == Coalesce(Field(tp, tok, "bestAskSize"), 0)

\* size > 0 ? size : 1000, with size = price?.bestAskSize ?? 0
SizeOrFallback(tp, tok) ==
  LET size == Coalesce(Field(tp, tok, "bestAskSize"), 0)
  IN IF size > 0 THEN size ELSE FallbackShares

\* info1 is the long market: intervalOrder[info1.interval] > intervalOrder[info2.interval]
\* variant: the market passed first is always the long one
firstIsLong_never_swapped(info1, info2) == TRUE

firstIsLong(info1, info2) ==
  intervalOrder(info1.interval) > intervalOrder(info2.interval)

\* the branch taken: TRUE for LONG_DOWN_SHORT_UP (identical refs included)
downUp(longRef, shortRef) == longRef = shortRef \/ longRef > shortRef

\* variant: the bounds are not ordered in the LONG_UP_SHORT_DOWN branch
profitZone_unordered(longRef, shortRef) == [low |-> shortRef, high |-> longRef]

profitZone(longRef, shortRef) ==
  IF longRef = shortRef THEN [low |-> longRef, high |-> longRef]
  ELSE IF longRef > shortRef THEN [low |-> shortRef, high |-> longRef]
  ELSE [low |-> longRef, high |-> shortRef]

\* variant: a positive cost stands for both prices
hasBothPrices_costOnly(leg1Ask, leg2Ask) == leg1Ask + leg2Ask > 0

\* hasBothPrices of the branch taken, over its two legs
hasBothPrices(leg1Ask, leg2Ask) == leg1Ask > 0 /\ leg2Ask > 0

\* variant: identical refs report the profit of a pair with a zone
maxProfitOf_noIdentical(identicalRefs, entryCost) == Two - entryCost

maxProfitOf(identicalRefs, entryCost) ==
  IF identicalRefs THEN -entryCost ELSE Two - entryCost

\* variant: a profit equal to the threshold is rejected
belowThreshold_strict(identicalRefs, maxProfit, minP) ==
  ~identicalRefs /\ maxProfit <= minP

\* !identicalRefs && maxProfit < this.minProfit
belowThreshold(identicalRefs, maxProfit, minP) ==
  ~identicalRefs /\ maxProfit < minP

\* variant: only the long market's reference price is required
missingReference_longOnly(longRef, shortRef) == Falsy(longRef)

\* !longInfo.referencePrice || !shortInfo.referencePrice
missingReference(longRef, shortRef) == Falsy(longRef) \/ Falsy(shortRef)

checkPairForArbitrage(tp, minP, info1, info2) ==
  LET longInfo == IF firstIsLong(info1, info2) THEN info1 ELSE info2
      shortInfo == IF firstIsLong(info1, info2) THEN info2 ELSE info1
      longUpAsk == AskOrZero(tp, longInfo.pair.yesTokenId)
      longDownAsk == AskOrZero(tp, longInfo.pair.noTokenId)
      shortUpAsk == AskOrZero(tp, shortInfo.pair.yesTokenId)
      shortDownAsk == AskOrZero(tp, shortInfo.pair.noTokenId)
      longRef == longInfo.referencePrice
      shortRef == shortInfo.referencePrice
      identicalRefs == longRef = shortRef
      du == downUp(longRef, shortRef)
      strategy == IF du THEN "LONG_DOWN_SHORT_UP" ELSE "LONG_UP_SHORT_DOWN"
      zone == profitZone(longRef, shortRef)
      leg1Ask == IF du THEN longDownAsk ELSE longUpAsk
      leg2Ask == IF du THEN shortUpAsk ELSE shortDownAsk
      entryCost == leg1Ask + leg2Ask
      maxShares == IF du
                   THEN Min(SizeOrFallback(tp, longInfo.pair.noTokenId),
                            SizeOrFallback(tp, shortInfo.pair.yesTokenId))
                   ELSE Min(SizeOrFallback(tp, longInfo.pair.yesTokenId),
                            SizeOrFallback(tp, shortInfo.pair.noTokenId))
      maxProfit == maxProfitOf(identicalRefs, entryCost)
  IN IF missingReference(longRef, shortRef) THEN <<>>
     ELSE IF ~hasBothPrices(leg1Ask, leg2Ask) THEN <<>>
     ELSE IF belowThreshold(identicalRefs, maxProfit, minP) THEN <<>>
     ELSE <<[longMarket |-> longInfo.pair.market, shortMarket |-> shortInfo.pair.market,
             longInterval |-> longInfo.interval, shortInterval |-> shortInfo.interval,
             longUpTokenId |-> longInfo.pair.yesTokenId,
             longDownTokenId |-> longInfo.pair.noTokenId,
             shortUpTokenId |-> shortInfo.pair.yesTokenId,
             shortDownTokenId |-> shortInfo.pair.noTokenId,
             longRefPrice |-> longRef, shortRefPrice |-> shortRef,
             profitZoneLow |-> zone.low, profitZoneHigh |-> zone.high,
             strategy |-> strategy,
             longUpAsk |-> longUpAsk, longDownAsk |-> longDownAsk,
             shortUpAsk |-> shortUpAsk, shortDownAsk |-> shortDownAsk,
             entryCost |-> entryCost, maxProfit |-> maxProfit,
             profitZoneWidth |-> zone.high - zone.low,
             maxShares |-> maxShares]>>

\* variant: a token no market lists is taken for a token of the first market
UpdatedIndex_default(infos, tokenId) ==
  LET hits == {i \in 1..Len(infos) :
                 \/ infos[i].value.pair.yesTokenId = tokenId
                 \/ infos[i].value.pair.noTokenId = tokenId}
  IN IF hits = {} THEN (IF Len(infos) > 0 THEN 1 ELSE 0)
     ELSE CHOOSE i \in hits : \A j \in hits : i <= j

\* the first MarketInfo, in Map order, that lists the token; 0 when none
UpdatedIndex(infos, tokenId) ==
  LET hits == {i \in 1..Len(infos) :
                 \/ infos[i].value.pair.yesTokenId = tokenId
                 \/ infos[i].value.pair.noTokenId = tokenId}
  IN IF hits = {} THEN 0 ELSE CHOOSE i \in hits : \A j \in hits : i <= j

\* the test of checkCrossMarketOpportunities on one other market
IsUpdateCandidate(updatedInfo, otherInfo) ==
  /\ otherInfo.pair.market.slug # updatedInfo.pair.market.slug
  /\ otherInfo.asset = updatedInfo.asset
  /\ otherInfo.interval # updatedInfo.interval
  /\ Abs(otherInfo.resolutionTimestamp - updatedInfo.resolutionTimestamp) <= Tolerance

\* the pairs (updatedInfo, otherInfo) the per-update path evaluates, in order
RECURSIVE UpdateCandidatesFrom(_, _, _)
UpdateCandidatesFrom(infos, u, i) ==
  IF i > Len(infos) THEN <<>>
  ELSE (IF IsUpdateCandidate(infos[u].value, infos[i].value)
        THEN <<<<infos[u].value, infos[i].value>>>> ELSE <<>>)
       \o UpdateCandidatesFrom(infos, u, i + 1)

UpdateCandidates(infos, tokenId) ==
  IF UpdatedIndex(infos, tokenId) = 0 THEN <<>>
  ELSE UpdateCandidatesFrom(infos, UpdatedIndex(infos, tokenId), 1)

RECURSIVE EvaluatePairs(_, _, _)
EvaluatePairs(tp, minP, pairs) ==
  IF pairs = <<>> THEN <<>>
  ELSE checkPairForArbitrage(tp, minP, Head(pairs)[1], Head(pairs)[2])
       \o EvaluatePairs(tp, minP, Tail(pairs))

\* variant: the first passing candidate in Map order is returned
checkCrossMarketOpportunities_first(infos, tp, minP, tokenId) ==
  LET opportunities == EvaluatePairs(tp, minP, UpdateCandidates(infos, tokenId))
  IN IF opportunities = <<>> THEN <<>>
     ELSE <<opportunities[1]>>

checkCrossMarketOpportunities(infos, tp, minP, tokenId) ==
  LET opportunities == EvaluatePairs(tp, minP, UpdateCandidates(infos, tokenId))
  IN IF opportunities = <<>> THEN <<>>
     ELSE <<SortDesc(opportunities, "maxProfit")[1]>>

BucketSeconds == 300

\* Math.round(t / 300) * 300 for t >= 0
RoundedTime(t) == ((2 * t + BucketSeconds) \div (2 * BucketSeconds)) * BucketSeconds

BucketKey(info) == <<info.asset, RoundedTime(info.resolutionTimestamp)>>

\* byAssetAndTime: bucket key -> MarketInfo[], in Map order
RECURSIVE Buckets(_, _, _)
Buckets(infos, i, acc) ==
  IF i > Len(infos) THEN acc
  ELSE LET info == infos[i].value
           old == IF MapHas(acc, BucketKey(info)) THEN MapGet(acc, BucketKey(info)) ELSE <<>>
       IN Buckets(infos, i + 1, MapSet(acc, BucketKey(info), Append(old, info)))

\* the double loop over one bucket: (i, j) with i < j, from position (i, j) on
RECURSIVE BucketPairs(_, _, _)
BucketPairs(markets, i, j) ==
  IF i > Len(markets) THEN <<>>
  ELSE IF j > Len(markets) THEN BucketPairs(markets, i + 1, i + 2)
  ELSE (IF markets[i].interval = markets[j].interval THEN <<>>
        ELSE <<<<markets[i], markets[j]>>>>)
       \o BucketPairs(markets, i, j + 1)

\* [slug1, slug2].sort().join('|') as the set of the two slugs
PairKey(p) == {p[1].pair.market.slug, p[2].pair.market.slug}

\* the checkedPairs filter over the pairs in evaluation order
RECURSIVE Unchecked(_, _)
Unchecked(pairs, checkedPairs) ==
  IF pairs = <<>> THEN <<>>
  ELSE IF PairKey(Head(pairs)) \in checkedPairs
       THEN Unchecked(Tail(pairs), checkedPairs)
       ELSE <<Head(pairs)>> \o Unchecked(Tail(pairs), checkedPairs \cup {PairKey(Head(pairs))})

RECURSIVE AllBucketPairs(_, _)
AllBucketPairs(buckets, k) ==
  IF k > Len(buckets) THEN <<>>
  ELSE (IF Len(buckets[k].value) < 2 THEN <<>>
        ELSE BucketPairs(buckets[k].value, 1, 2))
       \o AllBucketPairs(buckets, k + 1)

\* the pairs (info1, info2) scanAllCrossMarkets evaluates, in order
ScanCandidates(infos) == Unchecked(AllBucketPairs(Buckets(infos, 1, <<>>), 1), {})

\* variant: the opportunities are returned in the order they were found
scanAllCrossMarkets_unsorted(infos, tp, minP) ==
  EvaluatePairs(tp, minP, ScanCandidates(infos))

scanAllCrossMarkets(infos, tp, minP) ==
  SortDesc(EvaluatePairs(tp, minP, ScanCandidates(infos)), "maxProfit")

\* variant: the scan runs with the configured threshold
findAllCrossMarketOpportunities_configured(infos, tp) ==
  scanAllCrossMarkets(infos, tp, minProfit)

\* minProfit is set to -2.0 for the scan and restored before returning
findAllCrossMarketOpportunities(infos, tp) == scanAllCrossMarkets(infos, tp, -Two)

-----------------------------------------------------------------------------
(* The single-market detector as a state machine *)

MaxPairs == 2

Tokens == {"t1", "t2"}

RECURSIVE SeqsUpTo(_, _)
SeqsUpTo(S, n) ==
  IF n = 0 THEN {<<>>}
  ELSE SeqsUpTo(S, n - 1) \cup
       {Append(q, x) : q \in {r \in SeqsUpTo(S, n - 1) : Len(r) = n - 1}, x \in S}

\* the sides of the books of the feed, REST and socket: empty, one level, and
\* two levels with the best one last
AskSides == {<<>>, <<Level(499, 5)>>, <<Level(500, 5)>>, <<Level(500, 5), Level(499, 5)>>}
BidSides == {<<>>, <<Level(400, 5)>>, <<Level(500, 5)>>, <<Level(501, 5)>>,
             <<Level(400, 5), Level(501, 5)>>}

\* a book of the exchange is not crossed: its best bid is below its best ask
Uncrossed(book) ==
  \/ book.asks = <<>>
  \/ book.bids = <<>>
  \/ \A i \in 1..Len(book.asks), j \in 1..Len(book.bids) :
       book.bids[j].price < book.asks[i].price

FeedBooks == {bk \in {Book(a, b) : a \in AskSides, b \in BidSides} : Uncrossed(bk)}

\* best_ask / best_bid of a price_change message, Null when not supplied
AskChanges == {Null, 499}
BidChanges == {Null, 501}

\* lists the discovery collaborator passes to setMarketPairs
PairLists(universe) == SeqsUpTo(universe, MaxPairs)

SinglePairs == {P1, P1Thin}

\* part_001 DEFAULT_CONFIG: minProfit 0.001, minLiquidity 500
DefaultConfig == [minProfit |-> 1, minLiquidity |-> 500]

\* the scanner's execution state while no opportunity is handled
ExecIdle ==
  /\ opportunitiesFound = 0
  /\ executionEnabled = FALSE
  /\ isExecuting = FALSE
  /\ notified = 0
  /\ executions = 0

\* the executor before initialize()
ExecutorIdle ==
  /\ executor = [isInitialized |-> FALSE, dryRun |-> TRUE, maxPositionSize |-> 0,
                 tradesExecuted |-> 0]
  /\ tradeResult = <<>>
  /\ orders = <<>>

\* the streaming client as constructed
SocketIdle ==
  /\ websocket = [ws |-> Null, isConnected |-> FALSE, reconnectAttempts |-> 0,
                  subscribedTokens |-> {}]
  /\ sockets = <<>>
  /\ timers = 0
  /\ emitted = FALSE

DEFAULT_RISK_CONFIG ==
  [maxPositionPerMarket |-> 200 * One, maxGlobalExposure |-> 5000 * One,
   maxDailyLoss |-> 500 * One, enableKillSwitch |-> FALSE]

\* the risk manager as constructed with the default configuration
RiskIdle ==
  riskManager = [config |-> DEFAULT_RISK_CONFIG, positions |-> <<>>,
                 dailyStats |-> [date |-> 0, trades |-> 0, profit |-> 0, loss |-> 0],
                 totalExposure |-> 0, killSwitchActive |-> FALSE]

\* the collaborators of the scanner while they are not used
SideIdle == ExecutorIdle /\ SocketIdle /\ RiskIdle

CrossIdle ==
  /\ xTokenPrices = <<>>
  /\ marketInfos = <<>>
  /\ minProfit = DefaultConfig.minProfit
  /\ pricesLoaded = FALSE
  /\ refPriceCache = <<>>
  /\ runs = <<>>

InitSingle ==
  /\ marketPairs = <<>>
  /\ marketLookup = <<>>
  /\ tokenPrices = <<>>
  /\ config = DefaultConfig
  /\ bestNearMiss = <<>>
  /\ CrossIdle
  /\ ExecIdle
  /\ SideIdle
  /\ now = 0
  /\ lastOp = [op |-> "new", tokenId |-> "-"]
  /\ result = <<>>

\* variant: the price cache is cleared with the registry
SetMarketPairs_clearing(pairs) ==
  /\ marketPairs' = BuildMarketPairs(<<>>, pairs)
  /\ marketLookup' = BuildMarketLookup(<<>>, pairs)
  /\ tokenPrices' = <<>>
  /\ lastOp' = [op |-> "setMarketPairs", tokenId |-> "-"]
  /\ result' = <<>>
  /\ UNCHANGED <<config, bestNearMiss, crossVars, now, execVars, sideVars>>

SetMarketPairs(pairs) ==
  /\ marketPairs' = BuildMarketPairs(<<>>, pairs)
  /\ marketLookup' = BuildMarketLookup(<<>>, pairs)
  /\ lastOp' = [op |-> "setMarketPairs", tokenId |-> "-"]
  /\ result' = <<>>
  /\ UNCHANGED <<tokenPrices, config, bestNearMiss, crossVars, now, execVars, sideVars>>

UpdateFromOrderBook(tokenId, book) ==
  /\ tokenPrices' = Put(tokenPrices, tokenId, SnapshotRecord(book, now))
  /\ result' = checkAllArbitrageTypes(marketPairs, tokenPrices', config, tokenId)
  /\ lastOp' = [op |-> "updateFromOrderBook", tokenId |-> tokenId]
  /\ UNCHANGED <<marketPairs, marketLookup, config, bestNearMiss, crossVars, now, execVars, sideVars>>

UpdateFromWebSocket(update) ==
  /\ tokenPrices' = Put(tokenPrices, update.tokenId, MergedRecord(tokenPrices, update))
  /\ result' = checkAllArbitrageTypes(marketPairs, tokenPrices', config, update.tokenId)
  /\ lastOp' = [op |-> "updateFromWebSocket", tokenId |-> update.tokenId]
  /\ UNCHANGED <<marketPairs, marketLookup, config, bestNearMiss, crossVars, now, execVars, sideVars>>

\* the 'book' event of the socket
OnBook(tokenId, msg) == UpdateFromWebSocket(parseBookUpdate(tokenId, msg, now))

\* the 'price' event of the socket
OnPrice(tokenId, bestAsk, bestBid) ==
  UpdateFromWebSocket(parsePriceChange(tokenId, bestAsk, bestBid, now))

ScanAllMarkets ==
  /\ result' = scanAllMarkets(marketPairs, tokenPrices, config)
  /\ lastOp' = [op |-> "scanAllMarkets", tokenId |-> "-"]
  /\ UNCHANGED <<singleVars, crossVars, now, execVars, sideVars>>

NextSingle ==
  \/ \E pairs \in PairLists(SinglePairs) : SetMarketPairs(pairs)
  \/ \E t \in Tokens : \E b \in FeedBooks : UpdateFromOrderBook(t, b)
  \/ \E t \in Tokens : \E b \in FeedBooks : OnBook(t, b)
  \/ \E t \in Tokens : \E a \in AskChanges, b \in BidChanges : OnPrice(t, a, b)
  \/ ScanAllMarkets

SpecSingle == InitSingle /\ [][NextSingle]_vars

-----------------------------------------------------------------------------
(* CrossMarketDetector: the registry *)

\* the first loop of setMarketPairs: live reference prices go to the cache
RECURSIVE SaveToCache(_, _, _)
SaveToCache(infos, i, cache) ==
  IF i > Len(infos) THEN cache
  ELSE SaveToCache(infos, i + 1,
                   IF infos[i].value.referencePrice # Null
                   THEN Put(cache, infos[i].key, infos[i].value.referencePrice)
                   ELSE cache)

\* the second loop of setMarketPairs: parse, restore from the cache, register
RECURSIVE RegisterAll(_, _, _)
RegisterAll(pairs, cache, infos) ==
  IF pairs = <<>> THEN infos
  ELSE LET parsed == parseMarketInfo(Head(pairs))
           slug == Head(pairs).market.slug
           info == IF slug \in DOMAIN cache
                   THEN [parsed[1] EXCEPT !.referencePrice = cache[slug]]
                   ELSE parsed[1]
       IN RegisterAll(Tail(pairs), cache,
                      IF parsed = <<>> THEN infos ELSE MapSet(infos, slug, info))

-----------------------------------------------------------------------------
(* The cross-market detector's evaluation as a state machine *)

CrossPairs == <<P1, P2, P3>>

\* tokens whose books are fetched over REST, and tokens whose books arrive
\* on the socket
CrossRestTokens == {"t1", "t2"}

CrossSocketTokens == {"t3", "t4"}

CrossAskSides == {<<>>, <<Level(400, 5)>>, <<Level(550, 5)>>}

CrossFeedBooks == {Book(a, <<>>) : a \in CrossAskSides}

\* tokens that receive price_change messages, and the best_ask they carry
CrossPriceTokens == {"t1", "t6"}

CrossAskChanges(tok) == IF tok = "t6" THEN {400} ELSE {550}

\* the threshold the detector is constructed with
CrossMinProfits == {1050}

\* the reference prices loaded so far, slug -> price: long above short, short
\* above long, all equal, and one not loaded yet
LoadedRefs ==
  {(M1.slug :> 99500) @@ (M2.slug :> 100000) @@ (M3.slug :> 100000),
   (M1.slug :> 100000) @@ (M2.slug :> 99500) @@ (M3.slug :> 100000),
   (M1.slug :> 100000) @@ (M2.slug :> 100000) @@ (M3.slug :> 100000),
   (M2.slug :> 100000) @@ (M3.slug :> 100000)}

SingleIdle ==
  /\ marketPairs = <<>>
  /\ marketLookup = <<>>
  /\ tokenPrices = <<>>
  /\ config = DefaultConfig
  /\ bestNearMiss = <<>>

\* the detector after setMarketPairs(CrossPairs) and completed loads
InitCross ==
  /\ SingleIdle
  /\ xTokenPrices = <<>>
  /\ refPriceCache \in LoadedRefs
  /\ marketInfos = RegisterAll(CrossPairs, refPriceCache, <<>>)
  /\ minProfit \in CrossMinProfits
  /\ pricesLoaded = TRUE
  /\ runs = <<>>
  /\ ExecIdle
  /\ SideIdle
  /\ now = 0
  /\ lastOp = [op |-> "cross.setMarketPairs", tokenId |-> "-"]
  /\ result = <<>>

XUpdateFromOrderBook(tokenId, book) ==
  /\ xTokenPrices' = Put(xTokenPrices, tokenId, SnapshotRecord(book, now))
  /\ result' = checkCrossMarketOpportunities(marketInfos, xTokenPrices', minProfit, tokenId)
  /\ lastOp' = [op |-> "cross.updateFromOrderBook", tokenId |-> tokenId]
  /\ UNCHANGED <<singleVars, marketInfos, minProfit, pricesLoaded, refPriceCache, runs, now, execVars, sideVars>>

XUpdateFromWebSocket(update) ==
  /\ xTokenPrices' = Put(xTokenPrices, update.tokenId, MergedRecord(xTokenPrices, update))
  /\ result' = checkCrossMarketOpportunities(marketInfos, xTokenPrices', minProfit,
                                              update.tokenId)
  /\ lastOp' = [op |-> "cross.updateFromWebSocket", tokenId |-> update.tokenId]
  /\ UNCHANGED <<singleVars, marketInfos, minProfit, pricesLoaded, refPriceCache, runs, now, execVars, sideVars>>

XOnBook(tokenId, msg) == XUpdateFromWebSocket(parseBookUpdate(tokenId, msg, now))

XOnPrice(tokenId, bestAsk, bestBid) ==
  XUpdateFromWebSocket(parsePriceChange(tokenId, bestAsk, bestBid, now))

ScanAllCrossMarkets ==
  /\ result' = scanAllCrossMarkets(marketInfos, xTokenPrices, minProfit)
  /\ lastOp' = [op |-> "scanAllCrossMarkets", tokenId |-> "-"]
  /\ UNCHANGED <<singleVars, crossVars, now, execVars, sideVars>>

\* variant: the threshold is not restored after the scan
FindAllCrossMarketOpportunities_unrestored ==
  /\ result' = findAllCrossMarketOpportunities(marketInfos, xTokenPrices)
  /\ lastOp' = [op |-> "findAllCrossMarketOpportunities", tokenId |-> "-"]
  /\ minProfit' = -Two
  /\ UNCHANGED <<singleVars, xTokenPrices, marketInfos, pricesLoaded, refPriceCache, runs,
                 now, execVars, sideVars>>

FindAllCrossMarketOpportunities ==
  /\ result' = findAllCrossMarketOpportunities(marketInfos, xTokenPrices)
  /\ lastOp' = [op |-> "findAllCrossMarketOpportunities", tokenId |-> "-"]
  /\ UNCHANGED <<singleVars, crossVars, now, execVars, sideVars>>

NextCross ==
  \/ \E t \in CrossRestTokens : \E b \in CrossFeedBooks : XUpdateFromOrderBook(t, b)
  \/ \E t \in CrossSocketTokens : \E b \in CrossFeedBooks : XOnBook(t, b)
  \/ \E t \in CrossPriceTokens : \E a \in CrossAskChanges(t) : XOnPrice(t, a, Null)
  \/ ScanAllCrossMarkets
  \/ FindAllCrossMarketOpportunities

SpecCross == InitCross /\ [][NextCross]_vars

-----------------------------------------------------------------------------
(* The reference-price lifecycle: setMarketPairs and the asynchronous
   loadReferencePrices, whose calls suspend at each fetch *)

\* loadReferencePrices calls that may be suspended at one time
MaxRuns == 2

\* the pair lists a market refresh hands over
RefPairLists == {<<P1>>, <<P2>>, <<P1, P2>>}

\* open prices the price source reports
RefPrices == {99500, 100000}

\* what a fetch resolves to: a price, or Null for a null answer and for a
\* rejection (both are counted as failed and store nothing)
\* the fetch rejects (an exception reaches the catch of the loading loop)
Thrown == -2

\* what the awaited fetch gives: a price, null, or an exception
FetchAnswers == RefPrices \cup {Null, Thrown}

\* first loop of loadReferencePrices: missing prices restored from the cache
RestoreMissing(infos, cache) ==
  [i \in 1..Len(infos) |->
     IF infos[i].value.referencePrice = Null /\ infos[i].key \in DOMAIN cache
     THEN [infos[i] EXCEPT !.value.referencePrice = cache[infos[i].key]]
     ELSE infos[i]]

\* second loop: the markets still without a reference price
Missing(infos) ==
  Cardinality({i \in 1..Len(infos) : infos[i].value.referencePrice = Null})

\* the loading loop from the entry after `from`: the index of the next entry
\* whose referencePrice is null, 0 when the iteration ends
NextMissing(infos, from) ==
  LET rest == {i \in 1..Len(infos) : i > from /\ infos[i].value.referencePrice = Null}
  IN IF rest = {} THEN 0 ELSE CHOOSE i \in rest : \A j \in rest : i <= j

\* a call suspended at its await: the slug and MarketInfo of the iteration,
\* the iterator's position in marketInfos, whether that MarketInfo is still
\* the one the Map holds, and the slugs the call has fetched so far
Suspended(infos, i, fetched) ==
  [slug |-> infos[i].key, index |-> i, attached |-> TRUE,
   fetched |-> fetched \cup {infos[i].key}]

\* marketInfos.clear() under a live iterator: the MarketInfo in hand leaves
\* the Map and the iteration goes on over the entries set afterwards
Detached(run) == [run EXCEPT !.index = 0, !.attached = FALSE]

RemoveAt(s, r) == [i \in 1..(Len(s) - 1) |-> IF i < r THEN s[i] ELSE s[i + 1]]

InitRef ==
  /\ SingleIdle
  /\ CrossIdle
  /\ ExecIdle
  /\ SideIdle
  /\ now = 0
  /\ lastOp = [op |-> "new", tokenId |-> "-"]
  /\ result = <<>>

\* variant: the new MarketInfos are registered as parsed, nothing restored
XSetMarketPairs_fresh(pairs) ==
  /\ refPriceCache' = SaveToCache(marketInfos, 1, refPriceCache)
  /\ marketInfos' = RegisterAll(pairs, <<>>, <<>>)
  /\ runs' = [r \in 1..Len(runs) |-> Detached(runs[r])]
  /\ lastOp' = [op |-> "cross.setMarketPairs", tokenId |-> "-"]
  /\ UNCHANGED <<singleVars, xTokenPrices, minProfit, pricesLoaded, now, execVars, sideVars, result>>

XSetMarketPairs(pairs) ==
  /\ refPriceCache' = SaveToCache(marketInfos, 1, refPriceCache)
  /\ marketInfos' = RegisterAll(pairs, refPriceCache', <<>>)
  /\ runs' = [r \in 1..Len(runs) |-> Detached(runs[r])]
  /\ lastOp' = [op |-> "cross.setMarketPairs", tokenId |-> "-"]
  /\ UNCHANGED <<singleVars, xTokenPrices, minProfit, pricesLoaded, now, execVars, sideVars, result>>

\* variant: a completed load is not repeated unless forced
LoadReferencePrices_once(force) ==
  LET restored == RestoreMissing(marketInfos, refPriceCache)
      first == NextMissing(restored, 0)
  IN /\ marketInfos' = restored
     /\ IF pricesLoaded /\ ~force
        THEN UNCHANGED <<pricesLoaded, runs>>
        ELSE IF first = 0
        THEN pricesLoaded' = TRUE /\ UNCHANGED runs
        ELSE /\ Len(runs) < MaxRuns
             /\ runs' = Append(runs, Suspended(restored, first, {}))
             /\ UNCHANGED pricesLoaded
     /\ lastOp' = [op |-> "loadReferencePrices", tokenId |-> "-"]
     /\ UNCHANGED <<singleVars, xTokenPrices, minProfit, refPriceCache, now, execVars, sideVars, result>>

\* the call up to its first await, or to its end when nothing is awaited
LoadReferencePrices(force) ==
  LET restored == RestoreMissing(marketInfos, refPriceCache)
      first == NextMissing(restored, 0)
  IN /\ marketInfos' = restored
     /\ IF pricesLoaded /\ Missing(restored) = 0 /\ ~force
        THEN UNCHANGED <<pricesLoaded, runs>>
        ELSE IF first = 0
        THEN pricesLoaded' = TRUE /\ UNCHANGED runs
        ELSE /\ Len(runs) < MaxRuns
             /\ runs' = Append(runs, Suspended(restored, first, {}))
             /\ UNCHANGED pricesLoaded
     /\ lastOp' = [op |-> "loadReferencePrices", tokenId |-> "-"]
     /\ UNCHANGED <<singleVars, xTokenPrices, minProfit, refPriceCache, now, execVars, sideVars, result>>

\* variant: only a run whose MarketInfo is still registered saves the answer
StoreAnswer_attached(cache, run, openPrice) ==
  IF openPrice \notin {Null, Thrown} /\ run.attached
  THEN Put(cache, run.slug, openPrice)
  ELSE cache

\* refPriceCache.set(slug, openPrice) of the resumed call: a price is saved
\* under the slug of the iteration, whatever happened to the registry
StoreAnswer(cache, run, openPrice) ==
  IF openPrice \notin {Null, Thrown}
  THEN Put(cache, run.slug, openPrice)
  ELSE cache

\* variant: an exception of the fetch leaves the loading loop
ResumeLoad_uncaught(r, openPrice) ==
  LET run == runs[r]
      infos == IF openPrice \notin {Null, Thrown} /\ run.attached
               THEN [marketInfos EXCEPT ![run.index].value.referencePrice = openPrice]
               ELSE marketInfos
      next == IF openPrice = Thrown THEN 0 ELSE NextMissing(infos, run.index)
  IN /\ marketInfos' = infos
     /\ refPriceCache' = StoreAnswer(refPriceCache, run, openPrice)
     /\ IF next = 0
        THEN runs' = RemoveAt(runs, r) /\ pricesLoaded' = TRUE
        ELSE runs' = [runs EXCEPT ![r] = Suspended(infos, next, run.fetched)] /\ UNCHANGED pricesLoaded
     /\ lastOp' = [op |-> "loadReferencePrices.resume", tokenId |-> "-",
                    slug |-> run.slug, answer |-> openPrice]
     /\ UNCHANGED <<singleVars, xTokenPrices, minProfit, now, execVars, sideVars, result>>

\* a suspended call resumes with the fetch's answer and runs to its next
\* await or to its end; null and an exception only count as failed
ResumeLoad(r, openPrice) ==
  LET run == runs[r]
      infos == IF openPrice \notin {Null, Thrown} /\ run.attached
               THEN [marketInfos EXCEPT ![run.index].value.referencePrice = openPrice]
               ELSE marketInfos
      next == NextMissing(infos, run.index)
  IN /\ marketInfos' = infos
     /\ refPriceCache' = StoreAnswer(refPriceCache, run, openPrice)
     /\ IF next = 0
        THEN runs' = RemoveAt(runs, r) /\ pricesLoaded' = TRUE
        ELSE runs' = [runs EXCEPT ![r] = Suspended(infos, next, run.fetched)] /\ UNCHANGED pricesLoaded
     /\ lastOp' = [op |-> "loadReferencePrices.resume", tokenId |-> "-",
                    slug |-> run.slug, answer |-> openPrice]
     /\ UNCHANGED <<singleVars, xTokenPrices, minProfit, now, execVars, sideVars, result>>

NextRef ==
  \/ \E pairs \in RefPairLists : XSetMarketPairs(pairs)
  \/ \E force \in BOOLEAN : LoadReferencePrices(force)
  \/ \E r \in 1..Len(runs) : \E openPrice \in FetchAnswers : ResumeLoad(r, openPrice)

SpecRef == InitRef /\ [][NextRef]_vars

-----------------------------------------------------------------------------
(* PolyArbScanner in updown mode: every price event and every market refresh
   is handed to both detectors *)

\* variant: the evaluation reads the cache before the record is stored
singleUpdate_checkFirst(mp, tp, cfg, tokenId, record) ==
  [prices |-> Put(tp, tokenId, record),
   opp |-> checkAllArbitrageTypes(mp, tp, cfg, tokenId)]

\* ArbitrageDetector.updateFromOrderBook / updateFromWebSocket: store the
\* record, then evaluate the token's market
singleUpdate(mp, tp, cfg, tokenId, record) ==
  [prices |-> Put(tp, tokenId, record),
   opp |-> checkAllArbitrageTypes(mp, Put(tp, tokenId, record), cfg, tokenId)]

\* CrossMarketDetector.updateFromOrderBook / updateFromWebSocket
crossUpdate(infos, tp, minP, tokenId, record) ==
  [prices |-> Put(tp, tokenId, record),
   opp |-> checkCrossMarketOpportunities(infos, Put(tp, tokenId, record), minP, tokenId)]

\* the lists a refresh hands to both detectors
ScannerPairLists == {<<>>, <<P1>>, <<P2>>, <<P1, P2>>, <<P1, P0>>}

\* tokens the feed reports on, registered or not when the event arrives
ScannerTokens == {"t1", "t2", "t4"}

ScannerBooks == {Book(a, <<>>) : a \in CrossAskSides}

\* best_ask of the price_change messages
ScannerAskChanges == {400}

\* tokens of price_change messages: t5 is a token no refresh registers
ScannerPriceTokens == ScannerTokens \cup {"t5"}

\* reference prices loaded before: the 1h market opened above the 15m one
ScannerRefs == (M1.slug :> 99500) @@ (M2.slug :> 100000)

NoResult == [single |-> <<>>, cross |-> <<>>]

\* what an order book supplies: the best level of each side it has
Supplied(tokenId, book, ts) ==
  Update(tokenId, getBestAsk(book).price, getBestAsk(book).size,
         getBestBid(book).price, getBestBid(book).size, ts)

\* both detectors as constructed by the scanner, the reference prices of an
\* earlier registration in the persistent cache
InitScanner ==
  /\ SingleIdle
  /\ xTokenPrices = <<>>
  /\ marketInfos = <<>>
  /\ minProfit = config.minProfit
  /\ pricesLoaded = TRUE
  /\ refPriceCache = ScannerRefs
  /\ runs = <<>>
  /\ ExecIdle
  /\ SideIdle
  /\ now = 0
  /\ lastOp = [op |-> "new", tokenId |-> "-"]
  /\ result = NoResult

\* variant: the maps of the single-market detector are not cleared
RefreshMarkets_merge(pairs) ==
  /\ marketPairs' = BuildMarketPairs(marketPairs, pairs)
  /\ marketLookup' = BuildMarketLookup(marketLookup, pairs)
  /\ refPriceCache' = SaveToCache(marketInfos, 1, refPriceCache)
  /\ marketInfos' = RegisterAll(pairs, refPriceCache', <<>>)
  /\ lastOp' = [op |-> "setMarketPairs", tokenId |-> "-", pairs |-> pairs]
  /\ result' = NoResult
  /\ UNCHANGED <<tokenPrices, config, bestNearMiss, xTokenPrices, minProfit, pricesLoaded, runs, now, execVars, sideVars>>

\* refreshMarkets: setMarketPairs of both detectors
RefreshMarkets(pairs) ==
  /\ marketPairs' = BuildMarketPairs(<<>>, pairs)
  /\ marketLookup' = BuildMarketLookup(<<>>, pairs)
  /\ refPriceCache' = SaveToCache(marketInfos, 1, refPriceCache)
  /\ marketInfos' = RegisterAll(pairs, refPriceCache', <<>>)
  /\ lastOp' = [op |-> "setMarketPairs", tokenId |-> "-", pairs |-> pairs]
  /\ result' = NoResult
  /\ UNCHANGED <<tokenPrices, config, bestNearMiss, xTokenPrices, minProfit, pricesLoaded, runs, now, execVars, sideVars>>

\* one order book of fetchAllOrderBooks
FetchedOrderBook(tokenId, book) ==
  LET s == singleUpdate(marketPairs, tokenPrices, config, tokenId,
                        SnapshotRecord(book, now))
      x == crossUpdate(marketInfos, xTokenPrices, minProfit, tokenId,
                       SnapshotRecord(book, now))
  IN /\ tokenPrices' = s.prices
     /\ xTokenPrices' = x.prices
     /\ result' = [single |-> s.opp, cross |-> x.opp]
     /\ lastOp' = [op |-> "updateFromOrderBook", tokenId |-> tokenId,
                    update |-> Supplied(tokenId, book, now)]
     /\ UNCHANGED <<marketPairs, marketLookup, config, bestNearMiss, marketInfos, minProfit,
                    pricesLoaded, refPriceCache, runs, now, execVars, sideVars>>

\* the 'book' and 'price' callbacks of the socket
SocketUpdate(update) ==
  LET s == singleUpdate(marketPairs, tokenPrices, config, update.tokenId,
                        MergedRecord(tokenPrices, update))
      x == crossUpdate(marketInfos, xTokenPrices, minProfit, update.tokenId,
                       MergedRecord(xTokenPrices, update))
  IN /\ tokenPrices' = s.prices
     /\ xTokenPrices' = x.prices
     /\ result' = [single |-> s.opp, cross |-> x.opp]
     /\ lastOp' = [op |-> "updateFromWebSocket", tokenId |-> update.tokenId,
                    update |-> update]
     /\ UNCHANGED <<marketPairs, marketLookup, config, bestNearMiss, marketInfos, minProfit,
                    pricesLoaded, refPriceCache, runs, now, execVars, sideVars>>

SocketBook(tokenId, msg) == SocketUpdate(parseBookUpdate(tokenId, msg, now))

SocketPrice(tokenId, bestAsk) ==
  SocketUpdate(parsePriceChange(tokenId, bestAsk, Null, now))

NextScanner ==
  \/ \E pairs \in ScannerPairLists : RefreshMarkets(pairs)
  \/ \E t \in ScannerTokens : \E b \in ScannerBooks : FetchedOrderBook(t, b)
  \/ \E t \in ScannerTokens : \E b \in ScannerBooks : SocketBook(t, b)
  \/ \E t \in ScannerPriceTokens : \E a \in ScannerAskChanges : SocketPrice(t, a)

SpecScanner == InitScanner /\ [][NextScanner]_vars

------------------------------------------------------------------------------
(* The scanner's exhaustive scans over three markets that resolve together *)

\* the 15m, 1h and 4h markets of one asset, all resolving at 900 s
SweepPairs == <<P1, P2, P4>>

SweepTokens == {"t1", "t2", "t3", "t4", "t8"}

SweepBooks == {Book(a, <<>>) : a \in CrossAskSides}

\* the reference prices loaded for the three markets
SweepRefs == (M1.slug :> 99500) @@ (M2.slug :> 100000) @@ (M4.slug :> 100000)

\* both detectors after refreshMarkets and loadReferencePrices, before the
\* first order book
InitSweep ==
  /\ marketPairs = BuildMarketPairs(<<>>, SweepPairs)
  /\ marketLookup = BuildMarketLookup(<<>>, SweepPairs)
  /\ tokenPrices = <<>>
  /\ config = DefaultConfig
  /\ bestNearMiss = <<>>
  /\ xTokenPrices = <<>>
  /\ refPriceCache = SweepRefs
  /\ marketInfos = RegisterAll(SweepPairs, refPriceCache, <<>>)
  /\ minProfit = config.minProfit
  /\ pricesLoaded = TRUE
  /\ runs = <<>>
  /\ ExecIdle
  /\ SideIdle
  /\ now = 0
  /\ lastOp = [op |-> "setMarketPairs", tokenId |-> "-", pairs |-> SweepPairs]
  /\ result = NoResult

NextSweep ==
  \/ \E t \in SweepTokens : \E b \in SweepBooks : FetchedOrderBook(t, b)
  \/ ScanAllMarkets
  \/ ScanAllCrossMarkets
  \/ FindAllCrossMarketOpportunities

SpecSweep == InitSweep /\ [][NextSweep]_vars

------------------------------------------------------------------------------
(* Both detectors under partial data: books with a side missing, prices
   without sizes, reference prices not loaded *)

PartialPairs == <<P1, P2>>

\* books of the 15m market: empty, asks only, bids only, both sides
PartialBooks ==
  {Book(<<>>, <<>>), Book(<<Level(400, 5)>>, <<>>), Book(<<>>, <<Level(600, 5)>>),
   Book(<<Level(400, 5)>>, <<Level(300, 5)>>)}

\* books of the DOWN token of the 1h market
PartialLegBooks == {Book(<<>>, <<>>), Book(<<Level(400, 5)>>, <<>>)}

\* the reference prices loaded: both, one of the two, none
PartialRefs ==
  {(M1.slug :> 99500) @@ (M2.slug :> 100000), (M2.slug :> 100000),
   (M1.slug :> 99500), <<>>}

InitPartial ==
  /\ marketPairs = BuildMarketPairs(<<>>, PartialPairs)
  /\ marketLookup = BuildMarketLookup(<<>>, PartialPairs)
  /\ tokenPrices = <<>>
  /\ config = DefaultConfig
  /\ bestNearMiss = <<>>
  /\ xTokenPrices = <<>>
  /\ refPriceCache \in PartialRefs
  /\ marketInfos = RegisterAll(PartialPairs, refPriceCache, <<>>)
  /\ minProfit = config.minProfit
  /\ pricesLoaded = TRUE
  /\ runs = <<>>
  /\ ExecIdle
  /\ SideIdle
  /\ now = 0
  /\ lastOp = [op |-> "setMarketPairs", tokenId |-> "-", pairs |-> PartialPairs]
  /\ result = NoResult

NextPartial ==
  \/ \E t \in {"t1", "t2"} : \E b \in PartialBooks : FetchedOrderBook(t, b)
  \/ \E b \in PartialLegBooks : FetchedOrderBook("t4", b)
  \/ \E t \in {"t1", "t4"} : SocketPrice(t, 400)
  \/ ScanAllMarkets
  \/ ScanAllCrossMarkets

SpecPartial == InitPartial /\ [][NextPartial]_vars

------------------------------------------------------------------------------
(* The single-market detector's near-miss report *)

\* the registrations: both markets liquid, and the first one below minLiquidity
NearMissPairLists == {<<P1, P2>>, <<P1Thin, P2>>}

\* config.minProfit: the default, and one no gap of the feed reaches
NearMissMinProfits == {1, 500}

NearMissTokens == {"t1", "t2", "t3"}

NearMissBooks ==
  {Book(<<Level(400, 5)>>, <<Level(300, 5)>>), Book(<<Level(550, 5)>>, <<>>),
   Book(<<>>, <<Level(600, 5)>>)}

\* the detector after setMarketPairs and the order book of the last token
InitNearMiss ==
  /\ \E pairs \in NearMissPairLists :
       /\ marketPairs = BuildMarketPairs(<<>>, pairs)
       /\ marketLookup = BuildMarketLookup(<<>>, pairs)
  /\ tokenPrices = ("t4" :> SnapshotRecord(Book(<<Level(550, 5)>>, <<Level(300, 5)>>), 0))
  /\ \E mp \in NearMissMinProfits : config = [DefaultConfig EXCEPT !.minProfit = mp]
  /\ bestNearMiss = <<>>
  /\ CrossIdle
  /\ ExecIdle
  /\ SideIdle
  /\ now = 0
  /\ lastOp = [op |-> "updateFromOrderBook", tokenId |-> "t4"]
  /\ result = <<>>

FindBestNearMiss ==
  /\ bestNearMiss' = findBestNearMiss(marketPairs, tokenPrices, config)
  /\ result' = bestNearMiss'
  /\ lastOp' = [op |-> "findBestNearMiss", tokenId |-> "-"]
  /\ UNCHANGED <<marketPairs, marketLookup, tokenPrices, config, crossVars, now, execVars, sideVars>>

NextNearMiss ==
  \/ \E t \in NearMissTokens : \E b \in NearMissBooks : UpdateFromOrderBook(t, b)
  \/ OnPrice("t3", 400, Null)
  \/ FindBestNearMiss

SpecNearMiss == InitNearMiss /\ [][NextNearMiss]_vars

------------------------------------------------------------------------------
(* The single-market detector's cache as time passes *)

\* the latest reading of Date.now() the runs take
MaxClock == 3

StaleTokens == {"t1", "t2", "t3"}

StaleBooks == {Book(<<Level(400, 5)>>, <<Level(300, 5)>>), Book(<<>>, <<Level(600, 5)>>)}

\* values of the maxAgeMs argument
MaxAges == {0, 1, 2}

InitStale ==
  /\ marketPairs = BuildMarketPairs(<<>>, <<P1, P2>>)
  /\ marketLookup = BuildMarketLookup(<<>>, <<P1, P2>>)
  /\ tokenPrices = <<>>
  /\ config = DefaultConfig
  /\ bestNearMiss = <<>>
  /\ CrossIdle
  /\ ExecIdle
  /\ SideIdle
  /\ now = 0
  /\ lastOp = [op |-> "setMarketPairs", tokenId |-> "-"]
  /\ result = <<>>

\* Date.now() is later at the next call
ClockAdvances ==
  /\ now < MaxClock
  /\ now' = now + 1
  /\ lastOp' = [op |-> "Date.now", tokenId |-> "-"]
  /\ UNCHANGED <<singleVars, crossVars, execVars, sideVars, result>>

ClearStaleData(maxAgeMs) ==
  /\ tokenPrices' = clearStaleData(tokenPrices, now, maxAgeMs)
  /\ lastOp' = [op |-> "clearStaleData", tokenId |-> "-", maxAgeMs |-> maxAgeMs,
                removed |-> DOMAIN tokenPrices \ DOMAIN tokenPrices']
  /\ UNCHANGED <<marketPairs, marketLookup, config, bestNearMiss, crossVars, now,
                 execVars, sideVars, result>>

NextStale ==
  \/ \E t \in StaleTokens : \E b \in StaleBooks : UpdateFromOrderBook(t, b)
  \/ ClockAdvances
  \/ \E m \in MaxAges : ClearStaleData(m)

SpecStale == InitStale /\ [][NextStale]_vars

------------------------------------------------------------------------------
(* The cross-market detector over books of every size *)

SharePairs == <<P1, P2>>

ShareTokens == {"t1", "t2", "t3", "t4"}

\* best asks with no size left, a small one and a larger one, and no ask
ShareBooks ==
  {Book(<<>>, <<>>)} \cup {Book(<<Level(400, sz)>>, <<>>) : sz \in {0, 5, 7}}

\* tokens that receive price_change messages, which carry no size
SharePriceTokens == {"t1", "t3"}

\* long above short, short above long, both equal
ShareRefs ==
  {(M1.slug :> 99500) @@ (M2.slug :> 100000), (M1.slug :> 100000) @@ (M2.slug :> 99500),
   (M1.slug :> 100000) @@ (M2.slug :> 100000)}

InitShares ==
  /\ SingleIdle
  /\ xTokenPrices = <<>>
  /\ refPriceCache \in ShareRefs
  /\ marketInfos = RegisterAll(SharePairs, refPriceCache, <<>>)
  /\ minProfit = DefaultConfig.minProfit
  /\ pricesLoaded = TRUE
  /\ runs = <<>>
  /\ ExecIdle
  /\ SideIdle
  /\ now = 0
  /\ lastOp = [op |-> "cross.setMarketPairs", tokenId |-> "-"]
  /\ result = <<>>

NextShares ==
  \/ \E t \in ShareTokens : \E b \in ShareBooks : XUpdateFromOrderBook(t, b)
  \/ \E t \in SharePriceTokens : XOnPrice(t, 450, Null)
  \/ ScanAllCrossMarkets

SpecShares == InitShares /\ [][NextShares]_vars

------------------------------------------------------------------------------
(* The single-market detector fed by book messages only *)

QuoteTokens == {"t1", "t2"}

\* ask and bid sides of the book messages, asks lowest first
QuoteAskSides == {<<>>, <<Level(400, 5)>>, <<Level(450, 5)>>, <<Level(450, 5), Level(470, 5)>>}

QuoteBidSides == {<<>>, <<Level(300, 5)>>}

QuoteBooks == {Book(a, b) : a \in QuoteAskSides, b \in QuoteBidSides}

InitQuotes ==
  /\ marketPairs = BuildMarketPairs(<<>>, <<P1>>)
  /\ marketLookup = BuildMarketLookup(<<>>, <<P1>>)
  /\ tokenPrices = <<>>
  /\ config = DefaultConfig
  /\ bestNearMiss = <<>>
  /\ CrossIdle
  /\ ExecIdle
  /\ SideIdle
  /\ now = 0
  /\ lastOp = [op |-> "setMarketPairs", tokenId |-> "-"]
  /\ result = <<>>

\* an order book fetched over REST is passed to updateFromOrderBook
BookFetched(tokenId, book) ==
  /\ tokenPrices' = Put(tokenPrices, tokenId, SnapshotRecord(book, now))
  /\ result' = checkAllArbitrageTypes(marketPairs, tokenPrices', config, tokenId)
  /\ lastOp' = [op |-> "book.fetched", tokenId |-> tokenId, asks |-> book.asks]
  /\ UNCHANGED <<marketPairs, marketLookup, config, bestNearMiss, crossVars, now, execVars, sideVars>>

\* a 'book' message of the socket is parsed and passed to updateFromWebSocket
BookStreamed(tokenId, msg) ==
  /\ tokenPrices' = Put(tokenPrices, tokenId,
                        MergedRecord(tokenPrices, parseBookUpdate(tokenId, msg, now)))
  /\ result' = checkAllArbitrageTypes(marketPairs, tokenPrices', config, tokenId)
  /\ lastOp' = [op |-> "book.streamed", tokenId |-> tokenId, asks |-> msg.asks]
  /\ UNCHANGED <<marketPairs, marketLookup, config, bestNearMiss, crossVars, now, execVars, sideVars>>

NextQuotes ==
  \/ \E t \in QuoteTokens : \E b \in QuoteBooks : BookFetched(t, b)
  \/ \E t \in QuoteTokens : \E b \in QuoteBooks : BookStreamed(t, b)

SpecQuotes == InitQuotes /\ [][NextQuotes]_vars

------------------------------------------------------------------------------
(* The scanner's execution of single-market opportunities *)

\* opportunities handled in one run
MaxOpportunities == 8

\* the markets of the opportunities the detector hands to the scanner
HandledMarkets == {"m1", "m2", "m3"}

\* how an executeArbitrage call finishes: result.success, result.error, or a
\* rejection
ExecutionOutcomes == {"success", "failure", "throw"}

\* the scanner constructed without and with options.executorConfig
InitExec ==
  /\ SingleIdle
  /\ CrossIdle
  /\ SideIdle
  /\ opportunitiesFound = 0
  /\ executionEnabled \in BOOLEAN
  /\ isExecuting = FALSE
  /\ notified = 0
  /\ executions = 0
  /\ now = 0
  /\ lastOp = [op |-> "new", tokenId |-> "-"]
  /\ result = <<>>

\* variant: an execution starts whether or not another is in flight
HandleOpportunity_unguarded(opp) ==
  /\ opportunitiesFound < MaxOpportunities
  /\ opportunitiesFound' = opportunitiesFound + 1
  /\ notified' = notified + 1
  /\ IF executionEnabled
     THEN /\ isExecuting' = TRUE
          /\ executions' = executions + 1
          /\ result' = <<opp>>
     ELSE UNCHANGED <<isExecuting, executions, result>>
  /\ lastOp' = [op |-> "handleOpportunity", tokenId |-> "-", market |-> opp,
                started |-> executionEnabled]
  /\ UNCHANGED <<singleVars, crossVars, executionEnabled, now, sideVars>>

\* handleOpportunity up to its await: the count, the notification, and the
\* call of executeArbitrage when enabled and none is in flight; result holds
\* the argument of the call in flight
HandleOpportunity(opp) ==
  /\ opportunitiesFound < MaxOpportunities
  /\ opportunitiesFound' = opportunitiesFound + 1
  /\ notified' = notified + 1
  /\ IF executionEnabled /\ ~isExecuting
     THEN /\ isExecuting' = TRUE
          /\ executions' = executions + 1
          /\ result' = <<opp>>
     ELSE UNCHANGED <<isExecuting, executions, result>>
  /\ lastOp' = [op |-> "handleOpportunity", tokenId |-> "-", market |-> opp,
                started |-> executionEnabled /\ ~isExecuting]
  /\ UNCHANGED <<singleVars, crossVars, executionEnabled, now, sideVars>>

\* the awaited executeArbitrage settles: try, catch and finally
ExecutionEnds(outcome) ==
  /\ executions > 0
  /\ executions' = executions - 1
  /\ isExecuting' = FALSE
  /\ result' = <<>>
  /\ lastOp' = [op |-> "executeArbitrage.settled", tokenId |-> "-", outcome |-> outcome]
  /\ UNCHANGED <<singleVars, crossVars, opportunitiesFound, executionEnabled, notified, now, sideVars>>

NextExec ==
  \/ \E opp \in HandledMarkets : HandleOpportunity(opp)
  \/ \E outcome \in ExecutionOutcomes : ExecutionEnds(outcome)

SpecExec == InitExec /\ [][NextExec]_vars

------------------------------------------------------------------------------
(* ArbitrageExecutor *)

\* Polymarket order constraints, prices in $0.001
MIN_ORDER_AMOUNT_USD == One
MIN_SHARES == 5
MIN_PRICE == 10
MAX_PRICE == 990

Larger(a, b) == IF a >= b THEN a ELSE b

\* Math.ceil(a / b) for positive b
CeilOfQuotient(a, b) == (a + b - 1) \div b

\* a number of shares as the quotient n / d: sharesToTrade may be the
\* quotient maxPositionSize / totalCost
Shares(n, d) == [n |-> n, d |-> d]

NoShares == Shares(0, 1)

\* market.clobTokenIds of the markets of the model: the YES and the NO token
clobTokenIds(market) ==
  LET pair == CHOOSE pr \in {P1, P2, P3, P4, P5, P0} : pr.market.id = market.id
  IN <<pair.yesTokenId, pair.noTokenId>>

\* the early returns and the catch block: { success: false, sharesTraded: 0, totalCost: 0 }
FailedTrade(reason) ==
  [success |-> FALSE, error |-> reason, sharesTraded |-> NoShares, totalCost |-> NoShares]

\* shares * unit as a quotient of $0.001
Amount(shares, unit) == Shares(shares.n * unit, shares.d)

\* the position size of both execute methods: min(maxShares, maxPositionSize /
\* cost), raised to the effective minimum when that is affordable and
\* available; <<>> when the minimum cannot be met
sharesToTrade(maxPositionSize, price1, price2, cost, maxShares) ==
  LET minSharesForDollarAmount ==
        Larger(CeilOfQuotient(MIN_ORDER_AMOUNT_USD, price1),
               CeilOfQuotient(MIN_ORDER_AMOUNT_USD, price2))
      effectiveMinShares == Larger(MIN_SHARES, minSharesForDollarAmount)
      capped == IF maxShares * cost <= maxPositionSize THEN Shares(maxShares, 1)
                ELSE Shares(maxPositionSize, cost)
      belowMinimum == capped.n < effectiveMinShares * capped.d
      minCost == effectiveMinShares * cost
  IN IF ~belowMinimum THEN <<capped>>
     ELSE IF minCost <= maxPositionSize /\ maxShares >= effectiveMinShares
          THEN <<Shares(effectiveMinShares, 1)>>
          ELSE <<>>

BuyOrder(tokenID, price, size, simulated) ==
  [tokenID |-> tokenID, price |-> price, side |-> "BUY", size |-> size,
   simulated |-> simulated]

\* the part both execute methods share after the prices and the cost are
\* chosen; posted[i] tells whether the i-th createAndPostOrder resolved
\* (a live executor that is initialized has a client)
placePair(ex, tokens, price1, price2, cost, maxShares, posted) ==
  LET sized == sharesToTrade(ex.maxPositionSize, price1, price2, cost, maxShares)
      both == <<BuyOrder(tokens[1], price1, sized[1], ex.dryRun),
                BuyOrder(tokens[2], price2, sized[1], ex.dryRun)>>
  IN IF price1 < MIN_PRICE \/ price1 > MAX_PRICE
     THEN [result |-> FailedTrade("first price outside valid range"), orders |-> <<>>]
     ELSE IF price2 < MIN_PRICE \/ price2 > MAX_PRICE
     THEN [result |-> FailedTrade("second price outside valid range"), orders |-> <<>>]
     ELSE IF sized = <<>>
     THEN [result |-> FailedTrade("minimum not available or affordable"), orders |-> <<>>]
     ELSE IF sized[1].n * price1 < MIN_ORDER_AMOUNT_USD * sized[1].d
     THEN [result |-> FailedTrade("first order below $1"), orders |-> <<>>]
     ELSE IF sized[1].n * price2 < MIN_ORDER_AMOUNT_USD * sized[1].d
     THEN [result |-> FailedTrade("second order below $1"), orders |-> <<>>]
     ELSE IF ex.dryRun \/ (posted[1] /\ posted[2])
     THEN [result |-> [success |-> TRUE, error |-> "", sharesTraded |-> sized[1],
                       totalCost |-> Amount(sized[1], cost)],
           orders |-> both]
     ELSE [result |-> FailedTrade("createAndPostOrder rejected"),
           orders |-> SelectSeq(both, LAMBDA o : posted[IF o = both[1] THEN 1 ELSE 2])]

executeArbitrage(ex, opp, posted) ==
  IF ~ex.isInitialized
  THEN [result |-> FailedTrade("Executor not initialized"), orders |-> <<>>]
  ELSE placePair(ex, clobTokenIds(opp.market), opp.yesAskPrice, opp.noAskPrice,
                 opp.totalCost, opp.maxShares, posted)

executeCrossMarket(ex, opp, posted) ==
  LET down == opp.strategy = "LONG_DOWN_SHORT_UP"
      longPrice == IF down THEN opp.longDownAsk ELSE opp.longUpAsk
      shortPrice == IF down THEN opp.shortUpAsk ELSE opp.shortDownAsk
      longTokenId == IF down THEN opp.longDownTokenId ELSE opp.longUpTokenId
      shortTokenId == IF down THEN opp.shortUpTokenId ELSE opp.shortDownTokenId
  IN IF ~ex.isInitialized
     THEN [result |-> FailedTrade("Executor not initialized"), orders |-> <<>>]
     ELSE IF opp.entryCost > One
     THEN [result |-> FailedTrade("Entry cost > $1.00"), orders |-> <<>>]
     ELSE placePair(ex, <<longTokenId, shortTokenId>>, longPrice, shortPrice,
                    opp.entryCost, opp.maxShares, posted)

------------------------------------------------------------------------------
(* The executor fed with the detectors' opportunities *)

\* tradesExecuted is counted up to this number
MaxTrades == 1

\* ExecutorConfig.maxPositionSize in $0.001
PositionSizes == {3000, 6000}

TradeTokens == {"t1", "t2"}

\* books of the single-market feed: asks summing below $1, bids summing above
\* $1 under asks, and asks outside the valid order prices
TradeBooks(tokenId) ==
  IF tokenId = "t1"
  THEN {Book(<<Level(400, 7)>>, <<>>), Book(<<Level(400, 10)>>, <<>>),
        Book(<<Level(650, 5)>>, <<Level(600, 5)>>), Book(<<Level(995, 7)>>, <<>>)}
  ELSE {Book(<<Level(400, 10)>>, <<>>), Book(<<Level(650, 5)>>, <<Level(600, 5)>>),
        Book(<<Level(4, 7)>>, <<>>)}

\* tokens and books of the cross-market feed: the legs of long-DOWN + short-UP
TradeCrossTokens == {"t1", "t4"}

TradeCrossBooks(tokenId) ==
  IF tokenId = "t1"
  THEN {Book(<<Level(400, 7)>>, <<>>), Book(<<Level(550, 5)>>, <<>>)}
  ELSE {Book(<<Level(550, 5)>>, <<>>), Book(<<Level(995, 7)>>, <<>>)}

\* the scanner constructed with an executorConfig, both detectors registered
InitTrade ==
  /\ marketPairs = BuildMarketPairs(<<>>, <<P1>>)
  /\ marketLookup = BuildMarketLookup(<<>>, <<P1>>)
  /\ tokenPrices = <<>>
  /\ config = DefaultConfig
  /\ bestNearMiss = <<>>
  /\ xTokenPrices = <<>>
  /\ refPriceCache = (M1.slug :> 99500) @@ (M2.slug :> 100000)
  /\ marketInfos = RegisterAll(<<P1, P2>>, refPriceCache, <<>>)
  /\ minProfit = DefaultConfig.minProfit
  /\ pricesLoaded = TRUE
  /\ runs = <<>>
  /\ opportunitiesFound = 0
  /\ executionEnabled = TRUE
  /\ isExecuting = FALSE
  /\ notified = 0
  /\ executions = 0
  /\ \E dry \in BOOLEAN : \E size \in PositionSizes :
       executor = [isInitialized |-> FALSE, dryRun |-> dry, maxPositionSize |-> size,
                   tradesExecuted |-> 0]
  /\ tradeResult = <<>>
  /\ orders = <<>>
  /\ SocketIdle
  /\ RiskIdle
  /\ now = 0
  /\ lastOp = [op |-> "new", tokenId |-> "-"]
  /\ result = <<>>

Initialize ==
  /\ ~executor.isInitialized
  /\ executor' = [executor EXCEPT !.isInitialized = TRUE]
  /\ lastOp' = [op |-> "initialize", tokenId |-> "-"]
  /\ UNCHANGED <<singleVars, crossVars, execVars, wsVars, riskVars, tradeResult, orders, now, result>>

\* handleOpportunity hands the opportunity an update returned to executeArbitrage
ExecuteArbitrage(posted) ==
  /\ executionEnabled /\ ~isExecuting
  /\ lastOp.op = "updateFromOrderBook"
  /\ result # <<>>
  /\ LET done == executeArbitrage(executor, result[1], posted)
     IN /\ tradeResult' = done.result
        /\ orders' = done.orders
        /\ executor' = IF done.result.success
                       THEN [executor EXCEPT !.tradesExecuted = Min(@ + 1, MaxTrades)]
                       ELSE executor
  /\ lastOp' = [op |-> "executeArbitrage", tokenId |-> "-", opp |-> result[1]]
  /\ UNCHANGED <<singleVars, crossVars, execVars, wsVars, riskVars, now, result>>

ExecuteCrossMarket(posted) ==
  /\ lastOp.op = "cross.updateFromOrderBook"
  /\ result # <<>>
  /\ LET done == executeCrossMarket(executor, result[1], posted)
     IN /\ tradeResult' = done.result
        /\ orders' = done.orders
        /\ executor' = IF done.result.success
                       THEN [executor EXCEPT !.tradesExecuted = Min(@ + 1, MaxTrades)]
                       ELSE executor
  /\ lastOp' = [op |-> "executeCrossMarket", tokenId |-> "-", opp |-> result[1]]
  /\ UNCHANGED <<singleVars, crossVars, execVars, wsVars, riskVars, now, result>>

NextTrade ==
  \/ Initialize
  \/ \E t \in TradeTokens : \E b \in TradeBooks(t) : UpdateFromOrderBook(t, b)
  \/ \E t \in TradeCrossTokens : \E b \in TradeCrossBooks(t) : XUpdateFromOrderBook(t, b)
  \/ \E posted \in BOOLEAN \X BOOLEAN : ExecuteArbitrage(posted)
  \/ \E posted \in BOOLEAN \X BOOLEAN : ExecuteCrossMarket(posted)

SpecTrade == InitTrade /\ [][NextTrade]_vars

------------------------------------------------------------------------------
(* Registrations that come and go while the caches keep their prices *)

\* the lists of the registrations: nothing, and the 15m and the 1h market
ReusePairLists == {<<>>, <<P1, P2>>}

\* the tokens of the single-market pair, and the Up tokens of the two legs
ReuseTokens == {"t1", "t2"}

ReuseCrossTokens == {"t1", "t4"}

ReuseBook == Book(<<Level(400, 5)>>, <<>>)

\* both detectors as constructed, the reference prices of an earlier
\* registration in the persistent cache
InitReuse ==
  /\ SingleIdle
  /\ xTokenPrices = <<>>
  /\ marketInfos = <<>>
  /\ minProfit = config.minProfit
  /\ pricesLoaded = TRUE
  /\ refPriceCache = ScannerRefs
  /\ runs = <<>>
  /\ ExecIdle
  /\ SideIdle
  /\ now = 0
  /\ lastOp = [op |-> "new", tokenId |-> "-"]
  /\ result = <<>>

NextReuse ==
  \/ \E pairs \in ReusePairLists : SetMarketPairs(pairs)
  \/ \E pairs \in ReusePairLists : XSetMarketPairs(pairs)
  \/ \E t \in ReuseTokens : UpdateFromOrderBook(t, ReuseBook)
  \/ \E t \in ReuseCrossTokens : XUpdateFromOrderBook(t, ReuseBook)
  \/ ScanAllMarkets
  \/ ScanAllCrossMarkets
  \/ ClockAdvances
  \/ ClearStaleData(0)

SpecReuse == InitReuse /\ [][NextReuse]_vars

------------------------------------------------------------------------------
(* Reference prices that the source does not have yet: the periodic loads
   while the 15m market stays registered *)

\* the lists of the refreshes: the 15m market is in every one
RetryPairLists == {<<P1>>, <<P1, P2>>}

\* the clock reading from which the source has the candle's open price
SourceOpensAt == 1

\* what a fetch can resolve to at a clock reading: the open price, null or an
\* exception before the source has the price, the open price from then on
AnswersAt(t) == IF t >= SourceOpensAt THEN {99500} ELSE {99500, Null, Thrown}

\* the 15m market registered by the initial setMarketPairs, no price known
InitRetry ==
  /\ SingleIdle
  /\ xTokenPrices = <<>>
  /\ marketInfos = RegisterAll(<<P1>>, <<>>, <<>>)
  /\ minProfit = DefaultConfig.minProfit
  /\ pricesLoaded = FALSE
  /\ refPriceCache = <<>>
  /\ runs = <<>>
  /\ ExecIdle
  /\ SideIdle
  /\ now = 0
  /\ lastOp = [op |-> "cross.setMarketPairs", tokenId |-> "-"]
  /\ result = <<>>

\* the candle has started: the source answers with its open price from now on
SourceOpens ==
  /\ now < SourceOpensAt
  /\ now' = now + 1
  /\ lastOp' = [op |-> "Date.now", tokenId |-> "-"]
  /\ UNCHANGED <<singleVars, crossVars, execVars, sideVars, result>>

\* the awaited fetch of a suspended call settles
FetchSettles ==
  \E r \in 1..Len(runs) : \E openPrice \in AnswersAt(now) : ResumeLoad(r, openPrice)

NextRetry ==
  \/ \E pairs \in RetryPairLists : XSetMarketPairs(pairs)
  \/ \E force \in BOOLEAN : LoadReferencePrices(force)
  \/ FetchSettles
  \/ SourceOpens

SpecRetry == InitRetry /\ [][NextRetry]_vars

\* the refresh timer calls loadReferencePrices() again and again, and every
\* awaited fetch settles
SpecRetryFair ==
  /\ SpecRetry
  /\ WF_vars(LoadReferencePrices(FALSE))
  /\ WF_vars(FetchSettles)

------------------------------------------------------------------------------
(* PolymarketWebSocket: the client, the WebSocket objects its connect() calls
   created, and the reconnect timeouts *)

maxReconnectAttempts == 10

\* WebSocket objects that are not closed at one time
MaxSockets == 2

\* reconnect timeouts pending at one time
MaxTimers == 2

\* the token lists the scanner subscribes: the two tokens of a new market
SocketTokenLists == {{"t1", "t2"}, {"t3", "t4"}}

\* this.ws refers to a WebSocket that has closed (Null: this.ws is null,
\* i > 0: the i-th WebSocket of those not closed)
ClosedSocket == 0

NewSocket == [readyState |-> "CONNECTING", assets |-> {}]

\* ws.send(subscription): the server receives it on an open connection
Sent(socks, ws, tokenIds) ==
  IF ws > 0 /\ socks[ws].readyState = "OPEN"
  THEN [socks EXCEPT ![ws].assets = @ \cup tokenIds]
  ELSE socks

\* variant: the tokens are tracked before the connection is looked at
subscribeToTokens_tracked(w, socks, tokenIds) ==
  IF w.ws = Null \/ ~w.isConnected
  THEN [websocket |-> [w EXCEPT !.subscribedTokens = @ \cup tokenIds], sockets |-> socks]
  ELSE [websocket |-> [w EXCEPT !.subscribedTokens = @ \cup tokenIds],
        sockets |-> Sent(socks, w.ws, tokenIds)]

subscribeToTokens(w, socks, tokenIds) ==
  IF w.ws = Null \/ ~w.isConnected
  THEN [websocket |-> w, sockets |-> socks]
  ELSE [websocket |-> [w EXCEPT !.subscribedTokens = @ \cup tokenIds],
        sockets |-> Sent(socks, w.ws, tokenIds)]

\* variant: every close schedules a reconnect
attemptReconnect_unbounded(w) ==
  [websocket |-> [w EXCEPT !.reconnectAttempts = @ + 1], scheduled |-> 1, emitted |-> 0]

\* the client after attemptReconnect, the timeouts it set and the
\* 'maxReconnectAttempts' events it emitted
attemptReconnect(w) ==
  IF w.reconnectAttempts >= maxReconnectAttempts
  THEN [websocket |-> w, scheduled |-> 0, emitted |-> 1]
  ELSE [websocket |-> [w EXCEPT !.reconnectAttempts = @ + 1], scheduled |-> 1,
        emitted |-> 0]

\* new WebSocket(WS_URL) assigned to this.ws, its handlers registered
connect ==
  /\ Len(sockets) < MaxSockets
  /\ sockets' = Append(sockets, NewSocket)
  /\ websocket' = [websocket EXCEPT !.ws = Len(sockets) + 1]

\* connect() called by the scanner on a client that holds no socket
Connect ==
  /\ websocket.ws = Null
  /\ connect
  /\ lastOp' = [op |-> "connect", tokenId |-> "-"]
  /\ UNCHANGED <<singleVars, crossVars, execVars, tradeVars, riskVars, timers, emitted,
                 now, result>>

\* a reconnect timeout fires and calls connect()
ReconnectTimer ==
  /\ timers > 0
  /\ timers' = timers - 1
  /\ connect
  /\ lastOp' = [op |-> "setTimeout.connect", tokenId |-> "-"]
  /\ UNCHANGED <<singleVars, crossVars, execVars, tradeVars, riskVars, emitted, now, result>>

\* the 'open' handler of socket i
OnOpen(i) ==
  /\ sockets[i].readyState = "CONNECTING"
  /\ LET opened == [sockets EXCEPT ![i].readyState = "OPEN"]
         w == [websocket EXCEPT !.isConnected = TRUE, !.reconnectAttempts = 0]
         done == IF w.subscribedTokens # {}
                 THEN subscribeToTokens(w, opened, w.subscribedTokens)
                 ELSE [websocket |-> w, sockets |-> opened]
     IN /\ websocket' = done.websocket
        /\ sockets' = done.sockets
  /\ lastOp' = [op |-> "open", tokenId |-> "-", current |-> websocket.ws = i]
  /\ UNCHANGED <<singleVars, crossVars, execVars, tradeVars, riskVars, timers, emitted,
                 now, result>>

\* this.ws after socket i has closed and left the sockets that are not closed
AfterClose(ws, i) ==
  IF ws = i THEN ClosedSocket ELSE IF ws > i THEN ws - 1 ELSE ws

\* the 'close' handler of socket i: the connection failed, dropped, or the
\* close the client asked for has completed
OnClose(i) ==
  /\ sockets' = RemoveAt(sockets, i)
  /\ LET done == attemptReconnect([websocket EXCEPT !.isConnected = FALSE,
                                                    !.ws = AfterClose(@, i)])
     IN /\ timers + done.scheduled <= MaxTimers
        /\ websocket' = done.websocket
        /\ timers' = timers + done.scheduled
        /\ emitted' = (emitted \/ done.emitted = 1)
  /\ lastOp' = [op |-> "close", tokenId |-> "-", current |-> websocket.ws = i,
                readyState |-> sockets[i].readyState,
                emitted |-> attemptReconnect(websocket).emitted = 1]
  /\ UNCHANGED <<singleVars, crossVars, execVars, tradeVars, riskVars, now, result>>

Disconnect ==
  /\ sockets' = IF websocket.ws > 0
                THEN [sockets EXCEPT ![websocket.ws].readyState = "CLOSING"]
                ELSE sockets
  /\ websocket' = [websocket EXCEPT !.ws = Null, !.isConnected = FALSE,
                                    !.subscribedTokens = {}]
  /\ lastOp' = [op |-> "disconnect", tokenId |-> "-"]
  /\ UNCHANGED <<singleVars, crossVars, execVars, tradeVars, riskVars, timers, emitted,
                 now, result>>

SubscribeToTokens(tokenIds) ==
  /\ LET done == subscribeToTokens(websocket, sockets, tokenIds)
     IN /\ websocket' = done.websocket
        /\ sockets' = done.sockets
  /\ lastOp' = [op |-> "subscribeToTokens", tokenId |-> "-", tokenIds |-> tokenIds,
                connected |-> websocket.isConnected]
  /\ UNCHANGED <<singleVars, crossVars, execVars, tradeVars, riskVars, timers, emitted,
                 now, result>>

InitSocket ==
  /\ SingleIdle
  /\ CrossIdle
  /\ ExecIdle
  /\ SideIdle
  /\ now = 0
  /\ lastOp = [op |-> "new", tokenId |-> "-"]
  /\ result = <<>>

NextSocket ==
  \/ Connect
  \/ ReconnectTimer
  \/ \E i \in 1..Len(sockets) : OnOpen(i)
  \/ \E i \in 1..Len(sockets) : OnClose(i)
  \/ Disconnect
  \/ \E tokenIds \in SocketTokenLists : SubscribeToTokens(tokenIds)

SpecSocket == InitSocket /\ [][NextSocket]_vars

\* the client while the scanner runs: disconnect() is called only by stop()
NextStream ==
  \/ Connect
  \/ ReconnectTimer
  \/ \E i \in 1..Len(sockets) : OnOpen(i)
  \/ \E i \in 1..Len(sockets) : OnClose(i)
  \/ \E tokenIds \in SocketTokenLists : SubscribeToTokens(tokenIds)

SpecStream == InitSocket /\ [][NextStream]_vars

\* start() connects, every reconnect timeout fires, and every connection
\* attempt ends, by opening or by closing
SpecStreamFair ==
  /\ SpecStream
  /\ WF_vars(Connect)
  /\ WF_vars(ReconnectTimer)
  /\ WF_vars(\E i \in 1..Len(sockets) :
               sockets[i].readyState = "CONNECTING" /\ (OnOpen(i) \/ OnClose(i)))

------------------------------------------------------------------------------
(* RiskManager: canTrade, recordTrade and the kill switch *)

\* trades recorded in one day
MaxDailyTrades == 3

\* the configurations the manager is constructed with: the default, one with
\* a global limit of $300 and a daily loss limit of $5, and the default with
\* enableKillSwitch set
RiskConfigs ==
  {DEFAULT_RISK_CONFIG,
   [DEFAULT_RISK_CONFIG EXCEPT !.maxGlobalExposure = 300 * One, !.maxDailyLoss = 5 * One],
   [DEFAULT_RISK_CONFIG EXCEPT !.enableKillSwitch = TRUE]}

RiskMarkets == {"m1", "m2"}

\* the opportunities canTrade is asked about: market id and totalCost
RiskOpportunities == {[market |-> [id |-> m], totalCost |-> 960] : m \in RiskMarkets}

RequestedShares == {100, 200}

\* the profit a recorded trade reports
TradeProfits == {4 * One, 0 - 4 * One}

\* new Date().toISOString().split('T')[0] at a clock reading
DateOf(t) == t

createDailyStats(t) == [date |-> DateOf(t), trades |-> 0, profit |-> 0, loss |-> 0]

checkDayRollover(rm, t) ==
  IF rm.dailyStats.date # DateOf(t)
  THEN [rm EXCEPT !.dailyStats = createDailyStats(t)]
  ELSE rm

\* existingPosition ? existingPosition.shares * existingPosition.entryPrice : 0
existingExposure(rm, marketId) ==
  IF marketId \in DOMAIN rm.positions
  THEN rm.positions[marketId].shares * rm.positions[marketId].entryPrice
  ELSE 0

NotAllowed == [allowed |-> FALSE, maxShares |-> Null]

\* variant: the reduction for the global limit is checked against the
\* market's limit as well
canTrade_bothLimits(rm0, opp, requestedShares, t) ==
  LET rm == checkDayRollover(rm0, t)
      netDaily == rm.dailyStats.profit - rm.dailyStats.loss
      tradeValue == requestedShares * opp.totalCost
      byExposure == (rm.config.maxGlobalExposure - rm.totalExposure) \div opp.totalCost
      byMarket == (rm.config.maxPositionPerMarket - existingExposure(rm, opp.market.id))
                     \div opp.totalCost
      n == Min(requestedShares, Min(byExposure, byMarket))
  IN IF rm.killSwitchActive \/ rm.config.enableKillSwitch
     THEN [riskManager |-> rm, result |-> NotAllowed]
     ELSE IF netDaily < 0 - rm.config.maxDailyLoss
     THEN [riskManager |-> [rm EXCEPT !.killSwitchActive = TRUE], result |-> NotAllowed]
     ELSE IF n < 1
     THEN [riskManager |-> rm, result |-> NotAllowed]
     ELSE [riskManager |-> rm, result |-> [allowed |-> TRUE, maxShares |-> n]]

\* the manager after canTrade at clock reading t, and what the call returns
canTrade(rm0, opp, requestedShares, t) ==
  LET rm == checkDayRollover(rm0, t)
      netDaily == rm.dailyStats.profit - rm.dailyStats.loss
      tradeValue == requestedShares * opp.totalCost
      maxSharesByExposure ==
        (rm.config.maxGlobalExposure - rm.totalExposure) \div opp.totalCost
      newExposure == existingExposure(rm, opp.market.id) + tradeValue
      maxSharesByMarket ==
        (rm.config.maxPositionPerMarket - existingExposure(rm, opp.market.id))
          \div opp.totalCost
  IN IF rm.killSwitchActive \/ rm.config.enableKillSwitch
     THEN [riskManager |-> rm, result |-> NotAllowed]
     ELSE IF netDaily < 0 - rm.config.maxDailyLoss
     THEN [riskManager |-> [rm EXCEPT !.killSwitchActive = TRUE], result |-> NotAllowed]
     ELSE IF rm.totalExposure + tradeValue > rm.config.maxGlobalExposure
     THEN IF maxSharesByExposure < 1
          THEN [riskManager |-> rm, result |-> NotAllowed]
          ELSE [riskManager |-> rm,
                result |-> [allowed |-> TRUE, maxShares |-> maxSharesByExposure]]
     ELSE IF newExposure > rm.config.maxPositionPerMarket
     THEN IF maxSharesByMarket < 1
          THEN [riskManager |-> rm, result |-> NotAllowed]
          ELSE [riskManager |-> rm,
                result |-> [allowed |-> TRUE, maxShares |-> maxSharesByMarket]]
     ELSE [riskManager |-> rm, result |-> [allowed |-> TRUE, maxShares |-> requestedShares]]

\* the manager after recordTrade at clock reading t
recordTrade(rm0, marketId, shares, entryPrice, profit, t) ==
  LET rm == checkDayRollover(rm0, t)
      position == IF marketId \in DOMAIN rm.positions
                  THEN [shares |-> rm.positions[marketId].shares + shares,
                        entryPrice |-> (rm.positions[marketId].entryPrice + entryPrice) \div 2]
                  ELSE [shares |-> shares, entryPrice |-> entryPrice]
  IN [rm EXCEPT !.positions = Put(@, marketId, position),
                !.totalExposure = @ + shares * entryPrice,
                !.dailyStats.trades = @ + 1,
                !.dailyStats.profit = IF profit >= 0 THEN @ + profit ELSE @,
                !.dailyStats.loss = IF profit >= 0 THEN @ ELSE @ - profit]

InitRisk ==
  /\ SingleIdle
  /\ CrossIdle
  /\ ExecIdle
  /\ ExecutorIdle
  /\ SocketIdle
  /\ \E cfg \in RiskConfigs :
       riskManager = [config |-> cfg, positions |-> <<>>,
                      dailyStats |-> createDailyStats(0), totalExposure |-> 0,
                      killSwitchActive |-> FALSE]
  /\ now = 0
  /\ lastOp = [op |-> "new", tokenId |-> "-"]
  /\ result = <<>>

CanTrade(opp, requestedShares) ==
  /\ LET done == canTrade(riskManager, opp, requestedShares, now)
     IN /\ riskManager' = done.riskManager
        /\ result' = done.result
  /\ lastOp' = [op |-> "canTrade", tokenId |-> "-", opp |-> opp,
                requestedShares |-> requestedShares]
  /\ UNCHANGED <<singleVars, crossVars, execVars, tradeVars, wsVars, now>>

\* the caller records the trade canTrade has just allowed, at the size allowed
RecordTrade(profit) ==
  /\ lastOp.op = "canTrade"
  /\ result.allowed
  /\ checkDayRollover(riskManager, now).dailyStats.trades < MaxDailyTrades
  /\ riskManager' = recordTrade(riskManager, lastOp.opp.market.id, result.maxShares,
                                lastOp.opp.totalCost, profit, now)
  /\ lastOp' = [op |-> "recordTrade", tokenId |-> "-"]
  /\ UNCHANGED <<singleVars, crossVars, execVars, tradeVars, wsVars, now, result>>

ActivateKillSwitch ==
  /\ riskManager' = [riskManager EXCEPT !.killSwitchActive = TRUE]
  /\ lastOp' = [op |-> "activateKillSwitch", tokenId |-> "-"]
  /\ UNCHANGED <<singleVars, crossVars, execVars, tradeVars, wsVars, now, result>>

DeactivateKillSwitch ==
  /\ riskManager' = [riskManager EXCEPT !.killSwitchActive = FALSE]
  /\ lastOp' = [op |-> "deactivateKillSwitch", tokenId |-> "-"]
  /\ UNCHANGED <<singleVars, crossVars, execVars, tradeVars, wsVars, now, result>>

NextRisk ==
  \/ \E opp \in RiskOpportunities : \E n \in RequestedShares : CanTrade(opp, n)
  \/ \E profit \in TradeProfits : RecordTrade(profit)
  \/ ActivateKillSwitch
  \/ DeactivateKillSwitch
  \/ ClockAdvances

SpecRisk == InitRisk /\ [][NextRisk]_vars

------------------------------------------------------------------------------
(* The cross-market detector's registry over every kind of market *)

\* markets of each parsing path: slug pattern, series metadata, descriptive
\* slug, and one that is no up/down market
RegistryPairs == {P1, P2, P3, P4, P5, P0}

\* the longest list passed to setMarketPairs
RegistryListLen == 4

NextRegistry ==
  \E pairs \in SeqsUpTo(RegistryPairs, RegistryListLen) : XSetMarketPairs(pairs)

SpecRegistry == InitRef /\ [][NextRegistry]_vars

-----------------------------------------------------------------------------
(* Properties of the single-market detector *)

UpdateOps == {"updateFromOrderBook", "updateFromWebSocket"}

\* the pairs the registry holds
RegisteredPairs == {marketPairs[i].value : i \in 1..Len(marketPairs)}

Known(tok, fld) == tok \in DOMAIN tokenPrices /\ tokenPrices[tok][fld] # Null

SizeOrZero(tok, fld) == IF Known(tok, fld) THEN tokenPrices[tok][fld] ELSE 0

AsksKnownPositive(pair) ==
  /\ Known(pair.yesTokenId, "bestAsk") /\ tokenPrices[pair.yesTokenId].bestAsk > 0
  /\ Known(pair.noTokenId, "bestAsk") /\ tokenPrices[pair.noTokenId].bestAsk > 0

BidsKnownPositive(pair) ==
  /\ Known(pair.yesTokenId, "bestBid") /\ tokenPrices[pair.yesTokenId].bestBid > 0
  /\ Known(pair.noTokenId, "bestBid") /\ tokenPrices[pair.noTokenId].bestBid > 0

BuyBothCondition(pair) ==
  /\ One - (tokenPrices[pair.yesTokenId].bestAsk + tokenPrices[pair.noTokenId].bestAsk)
       >= config.minProfit
  /\ SizeOrZero(pair.yesTokenId, "bestAskSize") > 0
  /\ SizeOrZero(pair.noTokenId, "bestAskSize") > 0
  /\ pair.market.liquidityNum >= config.minLiquidity

SellBothCondition(pair) ==
  /\ (tokenPrices[pair.yesTokenId].bestBid + tokenPrices[pair.noTokenId].bestBid) - One
       >= config.minProfit
  /\ SizeOrZero(pair.yesTokenId, "bestBidSize") > 0
  /\ SizeOrZero(pair.noTokenId, "bestBidSize") > 0
  /\ pair.market.liquidityNum >= config.minLiquidity

\* the last call evaluated this pair and returned an opportunity of this type
Returned(pair, type) ==
  \E i \in 1..Len(result) :
    result[i].type = type /\ result[i].market.id = pair.market.id

\* the last call was a single-market evaluation of this pair
EvaluatedPair(pair) ==
  \/ /\ lastOp.op \in UpdateOps
     /\ MapHas(marketPairs, lastOp.tokenId)
     /\ MapGet(marketPairs, lastOp.tokenId) = pair
  \/ /\ lastOp.op = "scanAllMarkets"
     /\ pair \in RegisteredPairs

\* C1: with both best asks known and positive, a single-market evaluation
\* returns BUY_BOTH exactly when 1 - (yesAsk + noAsk) >= minProfit, both ask
\* sizes are positive (a missing size counting as 0) and the liquidity is at
\* least minLiquidity.
C1_BuyBothIff ==
  \A pair \in RegisteredPairs :
    (EvaluatedPair(pair) /\ AsksKnownPositive(pair)) =>
      (Returned(pair, "BUY_BOTH") <=> BuyBothCondition(pair))

\* a BUY_BOTH returned by a streaming update at a profit equal to minProfit
C1_Witness ==
  /\ lastOp.op = "updateFromWebSocket"
  /\ Len(result) = 1
  /\ result[1].type = "BUY_BOTH"
  /\ result[1].profit = config.minProfit

\* C2 as stated: with both best bids known and positive, SELL_BOTH is returned
\* exactly when (yesBid + noBid) - 1 >= minProfit, both bid sizes are positive
\* and the liquidity is at least minLiquidity, whatever the asks are.
C2_SellBothIffAnyAsks ==
  \A pair \in RegisteredPairs :
    (EvaluatedPair(pair) /\ BidsKnownPositive(pair)) =>
      (Returned(pair, "SELL_BOTH") <=> SellBothCondition(pair))

\* C2 amended: SELL_BOTH is returned exactly when its three conditions hold
\* and the BUY_BOTH conditions of the same market do not.
C2_SellBothIffNoBuyBoth ==
  \A pair \in RegisteredPairs :
    (EvaluatedPair(pair) /\ BidsKnownPositive(pair)) =>
      (Returned(pair, "SELL_BOTH") <=>
         /\ SellBothCondition(pair)
         /\ ~(AsksKnownPositive(pair) /\ BuyBothCondition(pair)))

\* a SELL_BOTH returned by an order-book snapshot at a profit equal to minProfit
C2_Witness ==
  /\ lastOp.op = "updateFromOrderBook"
  /\ Len(result) = 1
  /\ result[1].type = "SELL_BOTH"
  /\ result[1].profit = config.minProfit

\* C3: an evaluation returns at most one opportunity per market, and when the
\* BUY_BOTH and the SELL_BOTH conditions hold together it is the BUY_BOTH one.
C3_AtMostOneBuyBothFirst ==
  /\ lastOp.op \in UpdateOps => Len(result) <= 1
  /\ \A i, j \in 1..Len(result) :
       i # j => result[i].market.id # result[j].market.id
  /\ \A pair \in RegisteredPairs :
       (/\ EvaluatedPair(pair)
        /\ AsksKnownPositive(pair) /\ BuyBothCondition(pair)
        /\ BidsKnownPositive(pair) /\ SellBothCondition(pair))
       => (Returned(pair, "BUY_BOTH") /\ ~Returned(pair, "SELL_BOTH"))

\* an update after which both conditions hold, answered with BUY_BOTH
C3_Witness ==
  /\ lastOp.op \in UpdateOps
  /\ \E pair \in RegisteredPairs :
       /\ EvaluatedPair(pair)
       /\ AsksKnownPositive(pair) /\ BuyBothCondition(pair)
       /\ BidsKnownPositive(pair) /\ SellBothCondition(pair)
       /\ Returned(pair, "BUY_BOTH")

-----------------------------------------------------------------------------
(* Properties of the cross-market detector's evaluation *)

XUpdateOps == {"cross.updateFromOrderBook", "cross.updateFromWebSocket"}

XScanOps == {"scanAllCrossMarkets", "findAllCrossMarketOpportunities"}

RegisteredInfos == {marketInfos[i].value : i \in 1..Len(marketInfos)}

InfoOf(slug) == CHOOSE info \in RegisteredInfos : info.pair.market.slug = slug

XKnownAsk(tok) ==
  /\ tok \in DOMAIN xTokenPrices
  /\ xTokenPrices[tok].bestAsk # Null
  /\ xTokenPrices[tok].bestAsk # 0

RefSet(info) == info.referencePrice # Null /\ info.referencePrice # 0

\* the member with the longer candle
LongOf(a, b) == IF IntervalMs(a.interval) > IntervalMs(b.interval) THEN a ELSE b
ShortOf(a, b) == IF IntervalMs(a.interval) > IntervalMs(b.interval) THEN b ELSE a

\* the two legs the strategy buys: long-DOWN + short-UP unless the short
\* reference price is the higher one
Leg1(a, b) ==
  IF LongOf(a, b).referencePrice >= ShortOf(a, b).referencePrice
  THEN LongOf(a, b).pair.noTokenId ELSE LongOf(a, b).pair.yesTokenId
Leg2(a, b) ==
  IF LongOf(a, b).referencePrice >= ShortOf(a, b).referencePrice
  THEN ShortOf(a, b).pair.yesTokenId ELSE ShortOf(a, b).pair.noTokenId

LegsKnown(a, b) == XKnownAsk(Leg1(a, b)) /\ XKnownAsk(Leg2(a, b))

LegsCost(a, b) == xTokenPrices[Leg1(a, b)].bestAsk + xTokenPrices[Leg2(a, b)].bestAsk

\* pairs of registered markets on one asset, with different intervals, that
\* resolve at the same second: candidates under every reading of the rule
CoincidentPairs ==
  {ab \in RegisteredInfos \X RegisteredInfos :
     /\ ab[1].asset = ab[2].asset
     /\ ab[1].interval # ab[2].interval
     /\ ab[1].resolutionTimestamp = ab[2].resolutionTimestamp}

\* the opportunities of the last result that are about the pair {a, b}
OppsFor(a, b) ==
  {i \in 1..Len(result) :
     {result[i].longMarket.slug, result[i].shortMarket.slug}
       = {a.pair.market.slug, b.pair.market.slug}}

IsCrossOp == lastOp.op \in XUpdateOps \cup XScanOps

\* the threshold in force during the last call
ThresholdInForce ==
  IF lastOp.op = "findAllCrossMarketOpportunities" THEN -Two ELSE minProfit

\* C4: with different reference prices, longRef > shortRef gives
\* LONG_DOWN_SHORT_UP and zone [shortRef, longRef], shortRef > longRef gives
\* LONG_UP_SHORT_DOWN and zone [longRef, shortRef]; in every returned
\* opportunity low <= high and the bounds are the two reference prices.
C4_ZoneAndStrategy ==
  IsCrossOp =>
    \A i \in 1..Len(result) :
      LET o == result[i]
          longRef == InfoOf(o.longMarket.slug).referencePrice
          shortRef == InfoOf(o.shortMarket.slug).referencePrice
      IN /\ o.profitZoneLow <= o.profitZoneHigh
         /\ {o.profitZoneLow, o.profitZoneHigh} = {longRef, shortRef}
         /\ longRef > shortRef =>
              /\ o.strategy = "LONG_DOWN_SHORT_UP"
              /\ o.profitZoneLow = shortRef /\ o.profitZoneHigh = longRef
         /\ shortRef > longRef =>
              /\ o.strategy = "LONG_UP_SHORT_DOWN"
              /\ o.profitZoneLow = longRef /\ o.profitZoneHigh = shortRef

\* an opportunity of the flipped strategy: the short reference is the higher
C4_Witness ==
  /\ IsCrossOp
  /\ \E i \in 1..Len(result) :
       /\ result[i].strategy = "LONG_UP_SHORT_DOWN"
       /\ result[i].longRefPrice = 99500 /\ result[i].shortRefPrice = 100000
       /\ result[i].profitZoneLow = 99500 /\ result[i].profitZoneHigh = 100000

\* C5: in every returned opportunity both chosen legs have a known, non-zero
\* best ask in the cache, the opportunity carries these asks, and entryCost
\* is their sum.
C5_BothLegsPriced ==
  IsCrossOp =>
    \A i \in 1..Len(result) :
      LET o == result[i]
          a == InfoOf(o.longMarket.slug)
          b == InfoOf(o.shortMarket.slug)
          ask1 == IF o.strategy = "LONG_DOWN_SHORT_UP" THEN o.longDownAsk ELSE o.longUpAsk
          ask2 == IF o.strategy = "LONG_DOWN_SHORT_UP" THEN o.shortUpAsk ELSE o.shortDownAsk
      IN /\ LegsKnown(a, b)
         /\ ask1 = xTokenPrices[Leg1(a, b)].bestAsk /\ ask1 > 0
         /\ ask2 = xTokenPrices[Leg2(a, b)].bestAsk /\ ask2 > 0
         /\ o.entryCost = ask1 + ask2

\* a scan that left out a pair with reference prices whose one chosen leg has
\* an ask and whose other chosen leg has none
C5_Witness ==
  /\ lastOp.op = "findAllCrossMarketOpportunities"
  /\ \E ab \in CoincidentPairs :
       /\ RefSet(ab[1]) /\ RefSet(ab[2])
       /\ XKnownAsk(Leg1(ab[1], ab[2]))
       /\ ~XKnownAsk(Leg2(ab[1], ab[2]))
       /\ OppsFor(ab[1], ab[2]) = {}

\* C6: a coincident pair with different reference prices and both chosen asks
\* present is in the scan result exactly when 2 - entryCost >= the threshold,
\* and its opportunity has entryCost = the sum of the two chosen asks,
\* maxProfit = 2 - entryCost and zone width = |longRef - shortRef|.
C6_ProfitGate ==
  lastOp.op \in XScanOps =>
    \A ab \in CoincidentPairs :
      LET a == ab[1]
          b == ab[2]
      IN (/\ RefSet(a) /\ RefSet(b)
          /\ a.referencePrice # b.referencePrice
          /\ LegsKnown(a, b))
         => /\ OppsFor(a, b) # {} <=> Two - LegsCost(a, b) >= ThresholdInForce
            /\ \A i \in OppsFor(a, b) :
                 /\ result[i].entryCost = LegsCost(a, b)
                 /\ result[i].maxProfit = Two - LegsCost(a, b)
                 /\ result[i].profitZoneWidth = Abs(a.referencePrice - b.referencePrice)

\* the scenario of the specification: refs 100000 / 99500, asks 0.40 and 0.55
C6_Witness ==
  /\ lastOp.op = "scanAllCrossMarkets"
  /\ \E i \in 1..Len(result) :
       /\ result[i].longRefPrice = 100000 /\ result[i].shortRefPrice = 99500
       /\ {result[i].longDownAsk, result[i].shortUpAsk} = {400, 550}
       /\ result[i].entryCost = 950
       /\ result[i].maxProfit = 1050
       /\ result[i].profitZoneWidth = 500

\* C7: a coincident pair with equal reference prices whose long-DOWN and
\* short-UP legs both have a non-zero ask is in the scan result whatever the
\* threshold, with a zero-width zone and maxProfit = -entryCost.
C7_IdenticalRefsReported ==
  lastOp.op \in XScanOps =>
    \A ab \in CoincidentPairs :
      LET a == ab[1]
          b == ab[2]
          longDown == LongOf(a, b).pair.noTokenId
          shortUp == ShortOf(a, b).pair.yesTokenId
      IN (/\ RefSet(a) /\ RefSet(b)
          /\ a.referencePrice = b.referencePrice
          /\ XKnownAsk(longDown) /\ XKnownAsk(shortUp))
         => /\ OppsFor(a, b) # {}
            /\ \A i \in OppsFor(a, b) :
                 /\ result[i].profitZoneWidth = 0
                 /\ result[i].profitZoneLow = result[i].profitZoneHigh
                 /\ result[i].entryCost = xTokenPrices[longDown].bestAsk
                                           + xTokenPrices[shortUp].bestAsk
                 /\ result[i].maxProfit = -result[i].entryCost

\* a scan under a threshold above every possible profit that reports an
\* identical-reference pair at a loss
C7_Witness ==
  /\ lastOp.op = "scanAllCrossMarkets"
  /\ minProfit > 0
  /\ \E i \in 1..Len(result) :
       /\ result[i].longRefPrice = result[i].shortRefPrice
       /\ result[i].maxProfit < 0

\* what an evaluation says about the pair, whichever member was passed first
SameEvaluation(r1, r2) ==
  /\ Len(r1) = Len(r2)
  /\ Len(r1) = 1 =>
       /\ r1[1].longMarket = r2[1].longMarket
       /\ r1[1].shortMarket = r2[1].shortMarket
       /\ r1[1].strategy = r2[1].strategy
       /\ r1[1].profitZoneLow = r2[1].profitZoneLow
       /\ r1[1].profitZoneHigh = r2[1].profitZoneHigh
       /\ r1[1].entryCost = r2[1].entryCost
       /\ r1[1].maxProfit = r2[1].maxProfit

\* the registered market that lists the token
OwnerOf(tok) ==
  CHOOSE info \in RegisteredInfos :
    info.pair.yesTokenId = tok \/ info.pair.noTokenId = tok

\* the keys of the pairs the per-update path evaluates for the token
UpdatePairKeys(tok) ==
  {PairKey(p) : p \in Range(UpdateCandidates(marketInfos, tok))}

\* the keys of the pairs the exhaustive scan evaluates
ScanPairKeys == {PairKey(p) : p \in Range(ScanCandidates(marketInfos))}

\* the tokens of the registered markets
RegisteredTokens ==
  UNION {{info.pair.yesTokenId, info.pair.noTokenId} : info \in RegisteredInfos}

\* an opportunity the per-update path returned that the exhaustive scan of
\* the same state does not hold
MissedByScan ==
  /\ lastOp.op \in XUpdateOps
  /\ \E i \in 1..Len(result) :
       \A j \in 1..Len(scanAllCrossMarkets(marketInfos, xTokenPrices, minProfit)) :
         scanAllCrossMarkets(marketInfos, xTokenPrices, minProfit)[j] # result[i]

\* C8: both discovery paths use one candidate rule: a pair is evaluated by
\* the exhaustive scan if and only if the per-update path evaluates it for a
\* token of either member, and every opportunity the per-update path returns
\* is in the scanAllCrossMarkets result on the same state.
C8_SameCandidateRule ==
  /\ lastOp.op \in XUpdateOps => UpdatePairKeys(lastOp.tokenId) \subseteq ScanPairKeys
  /\ lastOp.op = "scanAllCrossMarkets" =>
       ScanPairKeys \subseteq UNION {UpdatePairKeys(tok) : tok \in RegisteredTokens}
  /\ ~MissedByScan

\* C9: the long market of an evaluation is the one with the larger interval
\* and the outcome does not depend on the order of the two members: the
\* opportunity an update returns is the one the evaluation started from the
\* other member gives, and every candidate pair evaluates alike both ways.
C9_OrderIndependent ==
  IsCrossOp =>
    /\ \A i \in 1..Len(result) :
         IntervalMs(result[i].longInterval) > IntervalMs(result[i].shortInterval)
    /\ \A a \in RegisteredInfos, b \in RegisteredInfos :
         (a.asset = b.asset /\ a.interval # b.interval) =>
           SameEvaluation(checkPairForArbitrage(xTokenPrices, minProfit, a, b),
                          checkPairForArbitrage(xTokenPrices, minProfit, b, a))
    /\ (lastOp.op \in XUpdateOps /\ result # <<>>) =>
         LET a == InfoOf(result[1].longMarket.slug)
             b == InfoOf(result[1].shortMarket.slug)
         IN /\ OwnerOf(lastOp.tokenId) \in {a, b}
            /\ checkPairForArbitrage(xTokenPrices, minProfit, a, b) = result
            /\ checkPairForArbitrage(xTokenPrices, minProfit, b, a) = result

\* an update of a token of the shorter market returned an opportunity, so
\* the evaluation received the short market first
C9_Witness ==
  /\ lastOp.op \in XUpdateOps
  /\ result # <<>>
  /\ OwnerOf(lastOp.tokenId).pair.market.slug = result[1].shortMarket.slug
  /\ IntervalMs(result[1].longInterval) > IntervalMs(result[1].shortInterval)

\* the registered markets the per-update path pairs with the market u: same
\* asset, another interval, resolution within the tolerance
CandidatesOf(u) ==
  {o \in RegisteredInfos :
     /\ o.pair.market.slug # u.pair.market.slug
     /\ o.asset = u.asset
     /\ o.interval # u.interval
     /\ Abs(o.resolutionTimestamp - u.resolutionTimestamp) <= Tolerance}

\* the profit of the pair on the current cache
ProfitOfPair(a, b) ==
  IF a.referencePrice = b.referencePrice THEN -LegsCost(a, b) ELSE Two - LegsCost(a, b)

\* the pair passes the reference-price, ask and profit gates
PassesGates(a, b) ==
  /\ RefSet(a) /\ RefSet(b)
  /\ LegsKnown(a, b)
  /\ \/ a.referencePrice = b.referencePrice
     \/ ProfitOfPair(a, b) >= minProfit

PassingFor(tok) ==
  IF tok \in RegisteredTokens
  THEN {o \in CandidatesOf(OwnerOf(tok)) : PassesGates(OwnerOf(tok), o)}
  ELSE {}

\* C18: an update returns nothing exactly when no candidate pair of the
\* updated token's market passes the gates; otherwise it returns one
\* opportunity, about a passing candidate pair, whose maxProfit is that
\* pair's profit and is at least the profit of every passing candidate pair.
C18_BestCandidateReturned ==
  lastOp.op \in XUpdateOps =>
    LET tok == lastOp.tokenId
    IN /\ result = <<>> <=> PassingFor(tok) = {}
       /\ result # <<>> =>
            /\ Len(result) = 1
            /\ \E o \in PassingFor(tok) :
                 /\ {result[1].longMarket.slug, result[1].shortMarket.slug}
                      = {OwnerOf(tok).pair.market.slug, o.pair.market.slug}
                 /\ result[1].maxProfit = ProfitOfPair(OwnerOf(tok), o)
            /\ \A o \in PassingFor(tok) :
                 ProfitOfPair(OwnerOf(tok), o) <= result[1].maxProfit

\* two candidate pairs pass with different profits, the better one later in
\* Map order, and the better one is returned
C18_Witness ==
  /\ lastOp.op \in XUpdateOps
  /\ lastOp.tokenId \in {"t1", "t2"}
  /\ Cardinality(PassingFor(lastOp.tokenId)) = 2
  /\ \E o \in PassingFor(lastOp.tokenId) :
       ProfitOfPair(OwnerOf(lastOp.tokenId), o) < result[1].maxProfit
  /\ result[1].longMarket.slug = M3.slug

-----------------------------------------------------------------------------
(* Properties of the reference-price lifecycle *)

RefSlugs == {M1.slug, M2.slug}

\* the numbers stored for the slug: on the live MarketInfo and in the cache
StoredFor(infos, cache, slug) ==
  {infos[i].value.referencePrice :
     i \in {j \in 1..Len(infos) : infos[j].key = slug
                                   /\ infos[j].value.referencePrice # Null}}
  \cup (IF slug \in DOMAIN cache THEN {cache[slug]} ELSE {})

\* C10: once a reference price is stored for a slug, on the live MarketInfo
\* or in the cache, no step of setMarketPairs or loadReferencePrices stores a
\* different number for that slug.
C10_StoredNeverReplaced ==
  [][\A slug \in RefSlugs :
       \A before \in StoredFor(marketInfos, refPriceCache, slug) :
         \A after \in StoredFor(marketInfos', refPriceCache', slug) :
           after = before]_vars

\* the reference price the slug has: the live one, else the cached one, else Null
KnownRef(infos, cache, slug) ==
  IF \E i \in 1..Len(infos) :
       infos[i].key = slug /\ infos[i].value.referencePrice # Null
  THEN MapGet(infos, slug).referencePrice
  ELSE IF slug \in DOMAIN cache THEN cache[slug] ELSE Null

\* C11: when setMarketPairs registers a slug that has a reference price, live
\* at the call or in the persistent cache, the new MarketInfo carries that
\* price right after the call; the call starts no fetch and the cache keeps
\* the price of every slug, registered or not.
C11_RefsSurviveRebuild ==
  [][lastOp'.op = "cross.setMarketPairs" =>
       /\ \A i \in 1..Len(marketInfos') :
            KnownRef(marketInfos, refPriceCache, marketInfos'[i].key) # Null =>
              marketInfos'[i].value.referencePrice
                = KnownRef(marketInfos, refPriceCache, marketInfos'[i].key)
       /\ \A slug \in RefSlugs :
            KnownRef(marketInfos, refPriceCache, slug) # Null =>
              /\ slug \in DOMAIN refPriceCache'
              /\ refPriceCache'[slug] = KnownRef(marketInfos, refPriceCache, slug)
       /\ Len(runs') = Len(runs)
       /\ \A r \in 1..Len(runs) : runs'[r].slug = runs[r].slug]_vars

\* a rebuild after every load has ended that registered a market with its
\* price while the cache keeps the price of a market left out of the list
C11_Witness ==
  /\ lastOp.op = "cross.setMarketPairs"
  /\ runs = <<>>
  /\ \E i \in 1..Len(marketInfos) :
       /\ marketInfos[i].value.referencePrice # Null
       /\ marketInfos[i].value.referencePrice = refPriceCache[marketInfos[i].key]
  /\ \E slug \in DOMAIN refPriceCache :
       \A i \in 1..Len(marketInfos) : marketInfos[i].key # slug

\* the registered market the run of index r is fetching after the step
FetchTarget(r) == marketInfos'[runs'[r].index]

\* the runs that issued a fetch in the step
NewFetches ==
  IF Len(runs') > Len(runs) THEN {Len(runs')}
  ELSE IF Len(runs') = Len(runs)
  THEN {r \in 1..Len(runs) : runs'[r] # runs[r]}
  ELSE {}

\* C12: loadReferencePrices fills missing prices from the cache first and
\* fetches only for registered markets whose price is still missing, at most
\* once per market in one run; with a completed load and nothing missing a
\* call fetches nothing.
C12_FetchOnlyMissingOnce ==
  [][/\ lastOp'.op = "loadReferencePrices" =>
          /\ \A i \in 1..Len(marketInfos') :
               marketInfos'[i].key \in DOMAIN refPriceCache =>
                 marketInfos'[i].value.referencePrice # Null
          /\ (pricesLoaded /\ \A i \in 1..Len(marketInfos) :
                 KnownRef(marketInfos, refPriceCache, marketInfos[i].key) # Null)
               => NewFetches = {}
     /\ lastOp'.op \in {"loadReferencePrices", "loadReferencePrices.resume"} =>
          \A r \in NewFetches :
            /\ FetchTarget(r).key = runs'[r].slug
            /\ FetchTarget(r).value.referencePrice = Null
            /\ runs'[r].slug \notin DOMAIN refPriceCache'
            /\ r <= Len(runs) => runs'[r].slug \notin runs[r].fetched]_vars

\* the slugs of the two markets of an opportunity
OppKeyOf(o) == {o.longMarket.slug, o.shortMarket.slug}

\* a price cache in which every token of the registered markets has an ask
PricedCache ==
  [tok \in {"t1", "t2", "t3", "t4"} |->
     SnapshotRecord(Book(<<Level(400, 5)>>, <<>>), 0)]

\* the detector returns no opportunity for a pair with a market that has no
\* reference price, at the configured threshold and at the lowest one, in
\* either order of the pair and from the exhaustive scan
NoOpportunityWithoutRef ==
  \A a \in RegisteredInfos : a.referencePrice = Null =>
    /\ \A b \in RegisteredInfos \ {a} : \A minP \in {minProfit, -Two} :
         /\ checkPairForArbitrage(PricedCache, minP, a, b) = <<>>
         /\ checkPairForArbitrage(PricedCache, minP, b, a) = <<>>
    /\ \A i \in 1..Len(findAllCrossMarketOpportunities(marketInfos, PricedCache)) :
         a.pair.market.slug
           \notin OppKeyOf(findAllCrossMarketOpportunities(marketInfos, PricedCache)[i])

\* the runs that were fetching the slug before the step
FetchingRuns(slug) == {r \in 1..Len(runs) : runs[r].slug = slug}

\* C21: when the fetch for a market answers null or throws, the resumed
\* loadReferencePrices call changes no reference price and no cache entry
\* (the market's price stays as it was, null when nothing else stored one),
\* goes on to fetch the next registered market still missing a price or ends
\* normally setting pricesLoaded, and pairs with a market without a reference
\* price yield no opportunity.
C21_FetchFailureContained ==
  /\ []NoOpportunityWithoutRef
  /\ [][(lastOp'.op = "loadReferencePrices.resume" /\ lastOp'.answer \in {Null, Thrown}) =>
       /\ marketInfos' = marketInfos
       /\ refPriceCache' = refPriceCache
       /\ \E r \in FetchingRuns(lastOp'.slug) :
            LET next == NextMissing(marketInfos, runs[r].index)
            IN IF next = 0
               THEN runs' = RemoveAt(runs, r) /\ pricesLoaded'
               ELSE /\ Len(runs') = Len(runs)
                    /\ runs'[r].slug = marketInfos[next].key
                    /\ runs'[r].index = next]_vars

\* the fetch for the first market threw, its reference price is null, the
\* same run is fetching the second market, and the two would be a pair
C21_Witness ==
  /\ lastOp.op = "loadReferencePrices.resume"
  /\ lastOp.answer = Thrown
  /\ lastOp.slug = M1.slug
  /\ Len(marketInfos) = 2
  /\ marketInfos[1].key = M1.slug /\ marketInfos[1].value.referencePrice = Null
  /\ Len(runs) = 1
  /\ runs[1].slug = M2.slug /\ runs[1].fetched = {M1.slug, M2.slug}
  /\ refPriceCache = <<>>

-----------------------------------------------------------------------------
(* Properties of the price caches and the registry, both detectors *)

PriceFields == {"bestAsk", "bestAskSize", "bestBid", "bestBidSize"}

\* the merge contract on one cache: a supplied field is stored, a field not
\* supplied keeps its value, other tokens are not touched
MergedOver(before, after, update) ==
  /\ update.tokenId \in DOMAIN after
  /\ \A fld \in PriceFields :
       after[update.tokenId][fld] =
         IF update[fld] # Null THEN update[fld]
         ELSE Field(before, update.tokenId, fld)
  /\ \A tok \in DOMAIN before \ {update.tokenId} :
       tok \in DOMAIN after /\ after[tok] = before[tok]

\* applying the update to the cache once more changes nothing
AppliedTwice(after, update) ==
  Put(after, update.tokenId, MergedRecord(after, update)) = after

\* C13: a streaming update is merged field by field into the token's record
\* of both caches: a field it does not carry (the size, for a price_change)
\* keeps the stored value, and applying the same update again leaves the
\* record as it is.
C13_MergeNonDestructiveIdempotent ==
  [][lastOp'.op = "updateFromWebSocket" =>
       /\ MergedOver(tokenPrices, tokenPrices', lastOp'.update)
       /\ MergedOver(xTokenPrices, xTokenPrices', lastOp'.update)
       /\ AppliedTwice(tokenPrices', lastOp'.update)
       /\ AppliedTwice(xTokenPrices', lastOp'.update)]_vars

\* a price_change without a size arrived for a token whose size is stored
C13_Witness ==
  /\ lastOp.op = "updateFromWebSocket"
  /\ lastOp.update.bestAsk # Null
  /\ lastOp.update.bestAskSize = Null
  /\ tokenPrices[lastOp.tokenId].bestAsk = lastOp.update.bestAsk
  /\ tokenPrices[lastOp.tokenId].bestAskSize # Null
  /\ xTokenPrices[lastOp.tokenId].bestAskSize # Null

\* C14: an order-book snapshot and a streaming update change the record by
\* one merge rule: on either path a field the update does not supply keeps
\* the value stored before.
C14_SameMergeRule ==
  [][lastOp'.op \in {"updateFromOrderBook", "updateFromWebSocket"} =>
       /\ MergedOver(tokenPrices, tokenPrices', lastOp'.update)
       /\ MergedOver(xTokenPrices, xTokenPrices', lastOp'.update)]_vars

ScannerUpdateOps == {"updateFromOrderBook", "updateFromWebSocket"}

\* the token is the YES or NO token of the pair
Lists(pair, tok) == pair.yesTokenId = tok \/ pair.noTokenId = tok

\* the best ask an opportunity of the single-market detector reports for the token
ReportedAsk(opp, tok) ==
  IF opp.market.id = M1.id
  THEN (IF tok = P1.yesTokenId THEN opp.yesAskPrice ELSE opp.noAskPrice)
  ELSE (IF tok = P2.yesTokenId THEN opp.yesAskPrice ELSE opp.noAskPrice)

\* the best ask a cross-market opportunity reports for the token
ReportedLegAsk(opp, tok) ==
  CASE tok = opp.longUpTokenId -> opp.longUpAsk
    [] tok = opp.longDownTokenId -> opp.longDownAsk
    [] tok = opp.shortUpTokenId -> opp.shortUpAsk
    [] tok = opp.shortDownTokenId -> opp.shortDownAsk

\* C15: what an update returns is the evaluation of the cache as it is after
\* the call's own record has been stored: the fields the call supplied are in
\* the cache and an opportunity reports, for the updated token, the ask the
\* cache now holds (0 in a cross-market opportunity when it holds none).
C15_UpdateBeforeEvaluation ==
  lastOp.op \in ScannerUpdateOps =>
    LET tok == lastOp.tokenId
    IN /\ \A fld \in PriceFields :
            lastOp.update[fld] # Null =>
              /\ tokenPrices[tok][fld] = lastOp.update[fld]
              /\ xTokenPrices[tok][fld] = lastOp.update[fld]
       /\ result.single = checkAllArbitrageTypes(marketPairs, tokenPrices, config, tok)
       /\ result.cross = checkCrossMarketOpportunities(marketInfos, xTokenPrices,
                                                        minProfit, tok)
       /\ \A i \in 1..Len(result.single) :
            ReportedAsk(result.single[i], tok) = tokenPrices[tok].bestAsk
       /\ \A i \in 1..Len(result.cross) :
            ReportedLegAsk(result.cross[i], tok) =
              IF xTokenPrices[tok].bestAsk = Null THEN 0 ELSE xTokenPrices[tok].bestAsk

\* an update that supplied the ask both detectors answered with an opportunity
C15_Witness ==
  /\ lastOp.op \in ScannerUpdateOps
  /\ lastOp.update.bestAsk # Null
  /\ result.single # <<>>
  /\ result.cross # <<>>
  /\ ReportedAsk(result.single[1], lastOp.tokenId) = lastOp.update.bestAsk
  /\ ReportedLegAsk(result.cross[1], lastOp.tokenId) = lastOp.update.bestAsk

AllTokens == {"t1", "t2", "t3", "t4", "t5", "t6", "t7", "t8", "t9", "t10"}

AllMarketIds == {M0.id, M1.id, M2.id, M3.id, M4.id}

EntriesFor(m, k) == {i \in 1..Len(m) : m[i].key = k}

\* the MarketInfos of the cross-market detector that list the token
InfosListing(infos, tok) ==
  {i \in 1..Len(infos) : Lists(infos[i].value.pair, tok)}

\* C16: after setMarketPairs(pairs) a token is tracked exactly when a pair of
\* the list has it as YES or NO token (in the cross-market detector: a pair of
\* the list that is an up/down market), a market id is known exactly when it
\* is in the list, a tracked token maps to one pair, which lists it, and the
\* registry stays as it is until the next setMarketPairs.
C16_RegistryReplaced ==
  [][/\ lastOp'.op = "setMarketPairs" =>
          LET pairs == lastOp'.pairs
          IN /\ \A tok \in AllTokens :
                  /\ MapHas(marketPairs', tok)
                       <=> \E k \in 1..Len(pairs) : Lists(pairs[k], tok)
                  /\ MapHas(marketPairs', tok) =>
                       /\ Cardinality(EntriesFor(marketPairs', tok)) = 1
                       /\ Lists(MapGet(marketPairs', tok), tok)
                       /\ \E k \in 1..Len(pairs) : pairs[k] = MapGet(marketPairs', tok)
                  /\ InfosListing(marketInfos', tok) # {}
                       <=> \E k \in 1..Len(pairs) :
                             Lists(pairs[k], tok) /\ parseMarketInfo(pairs[k]) # <<>>
                  /\ Cardinality(InfosListing(marketInfos', tok)) <= 1
             /\ \A id \in AllMarketIds :
                  /\ MapHas(marketLookup', id)
                       <=> \E k \in 1..Len(pairs) : pairs[k].market.id = id
                  /\ MapHas(marketLookup', id) =>
                       MapGet(marketLookup', id).market.id = id
     /\ lastOp'.op # "setMarketPairs" =>
          UNCHANGED <<marketPairs, marketLookup, marketInfos>>]_vars

\* a refresh that left out a market whose token has a price in both caches
C16_Witness ==
  /\ lastOp.op = "setMarketPairs"
  /\ lastOp.pairs = <<P2>>
  /\ "t1" \in DOMAIN tokenPrices /\ "t1" \in DOMAIN xTokenPrices
  /\ ~MapHas(marketPairs, "t1")
  /\ InfosListing(marketInfos, "t1") = {}
  /\ MapHas(marketPairs, "t4")
  /\ InfosListing(marketInfos, "t4") # {}

\* C17: an update for a token no registered pair lists returns no
\* opportunity, from either detector, and every opportunity an update
\* returns is about registered markets only.
C17_UnregisteredIgnored ==
  lastOp.op \in ScannerUpdateOps =>
    /\ EntriesFor(marketPairs, lastOp.tokenId) = {} => result.single = <<>>
    /\ InfosListing(marketInfos, lastOp.tokenId) = {} => result.cross = <<>>
    /\ \A i \in 1..Len(result.single) :
         EntriesFor(marketLookup, result.single[i].market.id) # {}
    /\ \A i \in 1..Len(result.cross) :
         \A tok \in {result.cross[i].longUpTokenId, result.cross[i].longDownTokenId,
                      result.cross[i].shortUpTokenId, result.cross[i].shortDownTokenId} :
           InfosListing(marketInfos, tok) # {}

\* an update for an untracked token whose market would give an opportunity
\* with the asks the cache holds
C17_Witness ==
  /\ lastOp.op \in ScannerUpdateOps
  /\ lastOp.tokenId = "t1"
  /\ EntriesFor(marketPairs, "t1") = {}
  /\ InfosListing(marketInfos, "t1") = {}
  /\ "t2" \in DOMAIN tokenPrices
  /\ tokenPrices["t1"].bestAsk = 400 /\ tokenPrices["t2"].bestAsk = 400
  /\ tokenPrices["t1"].bestAskSize = 5 /\ tokenPrices["t2"].bestAskSize = 5
  /\ result = NoResult

------------------------------------------------------------------------------
(* Properties of the exhaustive scans *)

\* the result is in non-increasing order of the field
NonIncreasing(opps, fld) ==
  \A i \in 1..Len(opps) : \A j \in 1..Len(opps) : i < j => opps[i][fld] >= opps[j][fld]

\* C19: the result of scanAllMarkets holds at most one opportunity per market
\* id; a registered market is in it exactly when its evaluation on the cache,
\* from either of its tokens, yields an opportunity, and then with that
\* opportunity; the result is in non-increasing profit order.
C19_ScanAllMarkets ==
  lastOp.op = "scanAllMarkets" =>
    /\ \A i \in 1..Len(result) : \A j \in 1..Len(result) :
         i # j => result[i].market.id # result[j].market.id
    /\ \A k \in 1..Len(marketPairs) :
         LET eval == checkAllArbitrageTypes(marketPairs, tokenPrices, config,
                                            marketPairs[k].key)
             hits == {i \in 1..Len(result) :
                        result[i].market.id = marketPairs[k].value.market.id}
         IN /\ hits # {} <=> eval # <<>>
            /\ \A i \in hits : result[i] = eval[1]
    /\ \A i \in 1..Len(result) : EntriesFor(marketLookup, result[i].market.id) # {}
    /\ NonIncreasing(result, "profit")

\* two markets yield opportunities and the one found second leads the result
C19_Witness ==
  /\ lastOp.op = "scanAllMarkets"
  /\ Len(result) = 2
  /\ result[1].market.id = M2.id /\ result[2].market.id = M1.id
  /\ result[1].profit > result[2].profit

\* the unordered pair of markets an opportunity is about
OppKey(o) == {o.longMarket.slug, o.shortMarket.slug}

\* C20: scanAllCrossMarkets evaluates no unordered pair of markets twice, holds
\* no two opportunities about one unordered pair, and returns its
\* opportunities in non-increasing maxProfit order.
C20_ScanAllCrossMarkets ==
  lastOp.op = "scanAllCrossMarkets" =>
    /\ \A i \in 1..Len(ScanCandidates(marketInfos)) :
         \A j \in 1..Len(ScanCandidates(marketInfos)) :
           i # j => PairKey(ScanCandidates(marketInfos)[i])
                      # PairKey(ScanCandidates(marketInfos)[j])
    /\ \A i \in 1..Len(result) : \A j \in 1..Len(result) :
         i # j => OppKey(result[i]) # OppKey(result[j])
    /\ \A i \in 1..Len(result) :
         \E k \in 1..Len(ScanCandidates(marketInfos)) :
           OppKey(result[i]) = PairKey(ScanCandidates(marketInfos)[k])
    /\ NonIncreasing(result, "maxProfit")

\* all three pairs of the bucket yield opportunities with three different
\* profits, and the pair evaluated second leads the result
C20_Witness ==
  /\ lastOp.op = "scanAllCrossMarkets"
  /\ Len(result) = 3
  /\ OppKey(result[1]) = {M1.slug, M4.slug}
  /\ OppKey(result[2]) = {M1.slug, M2.slug}
  /\ OppKey(result[3]) = {M2.slug, M4.slug}
  /\ result[1].maxProfit > result[2].maxProfit
  /\ result[2].maxProfit > result[3].maxProfit

------------------------------------------------------------------------------
(* Properties of the evaluation under partial data *)

EvaluationOps == ScannerUpdateOps \cup {"scanAllMarkets", "scanAllCrossMarkets"}

\* what the last call returned from the single-market detector and from the
\* cross-market detector
SingleReturned ==
  IF lastOp.op \in ScannerUpdateOps THEN result.single
  ELSE IF lastOp.op = "scanAllMarkets" THEN result ELSE <<>>

CrossReturned ==
  IF lastOp.op \in ScannerUpdateOps THEN result.cross
  ELSE IF lastOp.op = "scanAllCrossMarkets" THEN result ELSE <<>>

\* the cache of the single-market detector holds no usable value of the field
MissingIn(tp, tok, fld) == tok \notin DOMAIN tp \/ tp[tok][fld] = Null

\* C22: every update and scan returns a value (null or one opportunity from
\* an update, a list from a scan); a registered market with a missing best
\* ask on either leg is in no BUY_BOTH opportunity, with a missing best bid
\* on either leg in no SELL_BOTH opportunity, and a registered market without
\* a reference price is in no cross-market opportunity.
C22_EvaluationTotal ==
  lastOp.op \in EvaluationOps =>
    /\ lastOp.op \in ScannerUpdateOps =>
         Len(result.single) \in {0, 1} /\ Len(result.cross) \in {0, 1}
    /\ lastOp.op \notin ScannerUpdateOps => Len(result) \in 0..Len(marketPairs)
    /\ \A p \in RegisteredPairs :
         /\ (MissingIn(tokenPrices, p.yesTokenId, "bestAsk")
               \/ MissingIn(tokenPrices, p.noTokenId, "bestAsk")) =>
              \A i \in 1..Len(SingleReturned) :
                ~(SingleReturned[i].type = "BUY_BOTH"
                  /\ SingleReturned[i].market.id = p.market.id)
         /\ (MissingIn(tokenPrices, p.yesTokenId, "bestBid")
               \/ MissingIn(tokenPrices, p.noTokenId, "bestBid")) =>
              \A i \in 1..Len(SingleReturned) :
                ~(SingleReturned[i].type = "SELL_BOTH"
                  /\ SingleReturned[i].market.id = p.market.id)
    /\ \A a \in RegisteredInfos : a.referencePrice = Null =>
         \A i \in 1..Len(CrossReturned) :
           a.pair.market.slug \notin OppKeyOf(CrossReturned[i])

\* a scan of the pairs while the 15m market has no reference price and both
\* legs the strategy would buy have asks, and while the 15m market has an ask
\* on one leg only and a bid on each leg
C22_Witness ==
  /\ lastOp.op = "scanAllCrossMarkets"
  /\ result = <<>>
  /\ InfoOf(M1.slug).referencePrice = Null
  /\ InfoOf(M2.slug).referencePrice = 100000
  /\ {"t1", "t2", "t4"} \subseteq DOMAIN xTokenPrices
  /\ xTokenPrices["t1"].bestAsk = 400 /\ xTokenPrices["t4"].bestAsk = 400
  /\ tokenPrices["t1"].bestAsk = 400 /\ tokenPrices["t2"].bestAsk = Null
  /\ tokenPrices["t1"].bestBid = 300 /\ tokenPrices["t2"].bestBid = 600

------------------------------------------------------------------------------
(* Properties of the near-miss report *)

\* the value of the field, 0 when the cache has none
HeldOrZero(tok, fld) == IF Known(tok, fld) THEN tokenPrices[tok][fld] ELSE 0

\* the candidates: a registered market and a shape with both prices present,
\* a positive smaller size and enough liquidity, with the shape's gap
NearMissCandidates ==
  {[id |-> p.market.id, type |-> "BUY_BOTH",
    gap |-> One - (tokenPrices[p.yesTokenId].bestAsk + tokenPrices[p.noTokenId].bestAsk)] :
     p \in {q \in RegisteredPairs :
              /\ HeldOrZero(q.yesTokenId, "bestAsk") # 0
              /\ HeldOrZero(q.noTokenId, "bestAsk") # 0
              /\ HeldOrZero(q.yesTokenId, "bestAskSize") > 0
              /\ HeldOrZero(q.noTokenId, "bestAskSize") > 0
              /\ q.market.liquidityNum >= config.minLiquidity}}
  \cup
  {[id |-> p.market.id, type |-> "SELL_BOTH",
    gap |-> (tokenPrices[p.yesTokenId].bestBid + tokenPrices[p.noTokenId].bestBid) - One] :
     p \in {q \in RegisteredPairs :
              /\ HeldOrZero(q.yesTokenId, "bestBid") # 0
              /\ HeldOrZero(q.noTokenId, "bestBid") # 0
              /\ HeldOrZero(q.yesTokenId, "bestBidSize") > 0
              /\ HeldOrZero(q.noTokenId, "bestBidSize") > 0
              /\ q.market.liquidityNum >= config.minLiquidity}}

\* C23: findBestNearMiss returns nothing exactly when there is no candidate;
\* otherwise it returns a candidate, with its market, shape and gap, and no
\* candidate has a larger gap, at every value of minProfit.
C23_BestNearMiss ==
  lastOp.op = "findBestNearMiss" =>
    /\ result = <<>> <=> NearMissCandidates = {}
    /\ result # <<>> =>
         /\ Len(result) = 1
         /\ [id |-> result[1].market.id, type |-> result[1].type,
             gap |-> result[1].profitGap] \in NearMissCandidates
         /\ \A c \in NearMissCandidates : c.gap <= result[1].profitGap
    /\ bestNearMiss = result

\* both markets have candidates, the best is a SELL_BOTH of the market
\* visited second, and its gap is below minProfit
C23_Witness ==
  /\ lastOp.op = "findBestNearMiss"
  /\ Cardinality(NearMissCandidates) >= 3
  /\ result # <<>>
  /\ result[1].market.id = M2.id
  /\ result[1].profitGap < config.minProfit
  /\ \E c \in NearMissCandidates : c.id = M1.id /\ c.gap < result[1].profitGap

------------------------------------------------------------------------------
(* Properties of the diagnostic scan and of the scans' frame *)

\* the pairs of the scanAllCrossMarkets enumeration on the current registry
EnumeratedPairs == Range(ScanCandidates(marketInfos))

\* C24: findAllCrossMarketOpportunities returns an opportunity for exactly the
\* enumerated pairs that have both reference prices and both chosen-leg asks,
\* whatever their profit, and its result holds every opportunity of
\* scanAllCrossMarkets on the same state.
C24_FindAllIsSuperset ==
  lastOp.op = "findAllCrossMarketOpportunities" =>
    /\ \A pr \in EnumeratedPairs :
         (RefSet(pr[1]) /\ RefSet(pr[2]) /\ LegsKnown(pr[1], pr[2])) <=>
           \E i \in 1..Len(result) :
             /\ OppKeyOf(result[i]) = PairKey(pr)
             /\ result[i].maxProfit = ProfitOfPair(pr[1], pr[2])
    /\ \A i \in 1..Len(result) : \E pr \in EnumeratedPairs : OppKeyOf(result[i]) = PairKey(pr)
    /\ \A j \in 1..Len(scanAllCrossMarkets(marketInfos, xTokenPrices, minProfit)) :
         \E i \in 1..Len(result) :
           result[i] = scanAllCrossMarkets(marketInfos, xTokenPrices, minProfit)[j]

\* a pair with different reference prices whose profit is below the
\* configured threshold: reported by the diagnostic scan, not by the scan
C24_Witness ==
  /\ lastOp.op = "findAllCrossMarketOpportunities"
  /\ Len(result) = 1
  /\ result[1].longRefPrice # result[1].shortRefPrice
  /\ result[1].maxProfit < minProfit
  /\ scanAllCrossMarkets(marketInfos, xTokenPrices, minProfit) = <<>>

ScanOps == {"scanAllMarkets", "scanAllCrossMarkets", "findAllCrossMarketOpportunities"}

\* C25: a scan leaves the price caches, the registries, the reference prices
\* and the thresholds as they were, and the same scan called again with no
\* call in between returns the same result.
C25_ScansReadOnly ==
  [][lastOp'.op \in ScanOps =>
       /\ UNCHANGED <<tokenPrices, xTokenPrices, marketPairs, marketLookup, marketInfos,
                      refPriceCache, pricesLoaded, config, minProfit>>
       /\ lastOp.op = lastOp'.op => result' = result]_vars

\* the diagnostic scan has returned all three pairs from a filled cache and
\* the threshold is the configured one
C25_Witness ==
  /\ lastOp.op = "findAllCrossMarketOpportunities"
  /\ Len(result) = 3
  /\ minProfit = config.minProfit
  /\ DOMAIN xTokenPrices = SweepTokens
  /\ result = scanAllCrossMarkets(marketInfos, xTokenPrices, minProfit)

------------------------------------------------------------------------------
(* Properties of the market metadata *)

\* the duration of the interval in seconds
IntervalSeconds(interval) ==
  CASE interval = "15m" -> 900
    [] interval = "30m" -> 1800
    [] interval = "1h" -> 3600
    [] interval = "4h" -> 14400
    [] interval = "1d" -> 86400

\* C26: every registered MarketInfo has resolutionTimestamp equal to the
\* market's end time in seconds and candleStartTimestamp equal to
\* resolutionTimestamp minus the duration of its interval.
C26_TimestampsFromEndDate ==
  \A info \in RegisteredInfos :
    /\ info.resolutionTimestamp = info.pair.market.endDate \div 1000
    /\ info.candleStartTimestamp
         = info.resolutionTimestamp - IntervalSeconds(info.interval)


------------------------------------------------------------------------------
(* Properties of clearStaleData *)

\* C27: clearStaleData(maxAgeMs) removes from the price cache exactly the
\* entries whose lastUpdate is older than now - maxAgeMs; every other entry
\* stays as it was, and the registry is unchanged.
C27_ClearStaleData ==
  [][lastOp'.op = "clearStaleData" =>
       /\ DOMAIN tokenPrices'
            = {t \in DOMAIN tokenPrices :
                 tokenPrices[t].lastUpdate >= now - lastOp'.maxAgeMs}
       /\ \A t \in DOMAIN tokenPrices' : tokenPrices'[t] = tokenPrices[t]
       /\ marketPairs' = marketPairs
       /\ marketLookup' = marketLookup]_vars

\* a run removed an entry and kept one that was exactly maxAgeMs old
C27_Witness ==
  /\ lastOp.op = "clearStaleData"
  /\ lastOp.removed # {}
  /\ \E t \in DOMAIN tokenPrices : tokenPrices[t].lastUpdate = now - lastOp.maxAgeMs
  /\ lastOp.maxAgeMs > 0


------------------------------------------------------------------------------
(* Properties of the size of a cross-market opportunity *)

\* the best-ask size of a leg as the claim counts it
CountedSize(tok) ==
  IF /\ tok \in DOMAIN xTokenPrices
     /\ xTokenPrices[tok].bestAskSize # Null
     /\ xTokenPrices[tok].bestAskSize > 0
  THEN xTokenPrices[tok].bestAskSize ELSE 1000

\* the two tokens the strategy of an opportunity buys
ChosenLegs(o) ==
  IF o.strategy = "LONG_DOWN_SHORT_UP" THEN <<o.longDownTokenId, o.shortUpTokenId>>
  ELSE <<o.longUpTokenId, o.shortDownTokenId>>

\* the cache with a size of 5 on every record
SizesFilled == [t \in DOMAIN xTokenPrices |-> [xTokenPrices[t] EXCEPT !.bestAskSize = 5]]

\* the pairs of markets a list of opportunities is about
KeysOf(opps) == {OppKey(opps[i]) : i \in 1..Len(opps)}

\* C28: maxShares of a cross-market opportunity is the smaller of the two
\* chosen legs' best-ask sizes, a missing or non-positive size counting as
\* 1000; it is positive; and the scan returns the same pairs as it would with
\* every size present, so a missing size rejects nothing.
C28_MaxShares ==
  IsCrossOp =>
    /\ \A i \in 1..Len(result) :
         /\ result[i].maxShares
              = Min(CountedSize(ChosenLegs(result[i])[1]),
                    CountedSize(ChosenLegs(result[i])[2]))
         /\ result[i].maxShares > 0
    /\ lastOp.op = "scanAllCrossMarkets" =>
         KeysOf(result) = KeysOf(scanAllCrossMarkets(marketInfos, SizesFilled, minProfit))

\* an opportunity whose one leg has no size and whose other leg has size 0
C28_Witness ==
  /\ lastOp.op = "scanAllCrossMarkets"
  /\ Len(result) = 1
  /\ xTokenPrices[ChosenLegs(result[1])[1]].bestAskSize = Null
  /\ xTokenPrices[ChosenLegs(result[1])[2]].bestAskSize = 0
  /\ result[1].maxShares = 1000


------------------------------------------------------------------------------
(* Properties of the quotes behind a BUY_BOTH opportunity *)

BookOps == {"book.fetched", "book.streamed"}

\* the lowest ask price of a non-empty ask side
LowestAsk(asks) ==
  CHOOSE p \in {asks[i].price : i \in 1..Len(asks)} :
    \A i \in 1..Len(asks) : p <= asks[i].price

\* the ask an opportunity reports for a token of its market
AskReportedFor(o, tokenId) ==
  IF MapGet(marketPairs, tokenId).yesTokenId = tokenId THEN o.yesAskPrice
  ELSE o.noAskPrice

\* C29: a BUY_BOTH opportunity reported on a book message of a token uses for
\* that token the best ask the message contains; after a book message with
\* an empty ask side no BUY_BOTH opportunity is reported.
C29_NoVanishedQuote ==
  lastOp.op \in BookOps =>
    \A i \in 1..Len(result) :
      result[i].type = "BUY_BOTH" =>
        /\ lastOp.asks # <<>>
        /\ AskReportedFor(result[i], lastOp.tokenId) = LowestAsk(lastOp.asks)


------------------------------------------------------------------------------
(* Properties of the scanner's execution *)

\* C30: at most one executeArbitrage call is in flight; an opportunity handled
\* while one is in flight is counted and notified and starts no call, then or
\* later; the in-flight flag is cleared when the call settles, whatever the
\* outcome, and the next opportunity handled starts a call.
C30_OneExecutionInFlight ==
  /\ [](executions <= 1 /\ (isExecuting <=> executions = 1))
  /\ [][lastOp'.op = "handleOpportunity" =>
          /\ opportunitiesFound' = opportunitiesFound + 1
          /\ notified' = notified + 1
          /\ isExecuting => (executions' = executions /\ isExecuting' /\ result' = result)
          /\ (executionEnabled /\ ~isExecuting) =>
               (executions' = 1 /\ isExecuting' /\ result' = <<lastOp'.market>>)]_vars
  /\ [][lastOp'.op = "executeArbitrage.settled" =>
          (~isExecuting' /\ executions' = 0 /\ result' = <<>>)]_vars

\* an opportunity handled while the execution of another market's is in flight
C30_Witness ==
  /\ lastOp.op = "handleOpportunity"
  /\ ~lastOp.started
  /\ isExecuting
  /\ executions = 1
  /\ result # <<lastOp.market>>
  /\ opportunitiesFound >= 3


------------------------------------------------------------------------------
(* Properties of the executor *)

ExecuteOps == {"executeArbitrage", "executeCrossMarket"}

\* the orders of the last call stay within the order constraints, the
\* liquidity of the opportunity and the configured position size
OrdersWithinLimits ==
  /\ Len(orders) = 2
  /\ orders[1].size = orders[2].size
  /\ tradeResult.sharesTraded = orders[1].size
  /\ \A i \in 1..2 :
       /\ orders[i].price >= 10 /\ orders[i].price <= 990
       /\ orders[i].size.n >= 5 * orders[i].size.d
       /\ orders[i].size.n <= lastOp.opp.maxShares * orders[i].size.d
       /\ orders[i].size.n * orders[i].price >= One * orders[i].size.d
  /\ orders[1].size.n * (orders[1].price + orders[2].price)
       <= executor.maxPositionSize * orders[1].size.d

\* C31: when executeArbitrage or executeCrossMarket reports success, both
\* order prices are within [0.01, 0.99], the shares are at least 5 and at
\* most the opportunity's maxShares, each order is worth at least $1 and
\* the two orders together cost at most maxPositionSize; in every other
\* outcome no order is placed and sharesTraded is 0.
C31_OrdersWithinLimits ==
  lastOp.op \in ExecuteOps =>
    IF tradeResult.success THEN OrdersWithinLimits
    ELSE orders = <<>> /\ tradeResult.sharesTraded = NoShares

\* C32: the two orders placed or simulated for a single-market opportunity
\* buy the YES and the NO token of its market at prices that sum to less
\* than $1, also when the opportunity handed over is a SELL_BOTH one.
C32_PairCostsLessThanPayout ==
  (lastOp.op = "executeArbitrage" /\ Len(orders) = 2) =>
    /\ <<orders[1].tokenID, orders[2].tokenID>> = clobTokenIds(lastOp.opp.market)
    /\ orders[1].side = "BUY" /\ orders[2].side = "BUY"
    /\ orders[1].price + orders[2].price < One


------------------------------------------------------------------------------
(* Properties of the price caches across registrations *)

RegistrationOps == {"setMarketPairs", "cross.setMarketPairs"}

\* the cached asks of the pair make a BUY_BOTH opportunity
CachedBuyBoth(pair) ==
  /\ {pair.yesTokenId, pair.noTokenId} \subseteq DOMAIN tokenPrices
  /\ tokenPrices[pair.yesTokenId].bestAsk > 0
  /\ tokenPrices[pair.noTokenId].bestAsk > 0
  /\ One - (tokenPrices[pair.yesTokenId].bestAsk + tokenPrices[pair.noTokenId].bestAsk)
       >= config.minProfit
  /\ pair.market.liquidityNum >= config.minLiquidity
  /\ tokenPrices[pair.yesTokenId].bestAskSize > 0
  /\ tokenPrices[pair.noTokenId].bestAskSize > 0

\* every scan evaluates the registered markets on the cached prices
ScansUseCachedPrices ==
  /\ lastOp.op = "scanAllMarkets" =>
       \A pair \in RegisteredPairs :
         CachedBuyBoth(pair) =>
           \E i \in 1..Len(result) :
             /\ result[i].market.id = pair.market.id
             /\ result[i].yesAskPrice = tokenPrices[pair.yesTokenId].bestAsk
             /\ result[i].noAskPrice = tokenPrices[pair.noTokenId].bestAsk
  /\ lastOp.op = "scanAllCrossMarkets" =>
       \A pr \in EnumeratedPairs :
         PassesGates(pr[1], pr[2]) =>
           \E i \in 1..Len(result) :
             /\ OppKeyOf(result[i]) = PairKey(pr)
             /\ result[i].entryCost = LegsCost(pr[1], pr[2])

\* C33: setMarketPairs of either detector leaves the price caches unchanged;
\* a scan that follows it evaluates the newly registered markets on the
\* prices cached before, with no price event in between; and a cached record
\* changes or goes only by an update of its token or by clearStaleData.
C33_RegistrationKeepsPrices ==
  /\ []ScansUseCachedPrices
  /\ [][lastOp'.op \in RegistrationOps =>
          (tokenPrices' = tokenPrices /\ xTokenPrices' = xTokenPrices)]_vars
  /\ [][\A t \in DOMAIN tokenPrices :
          (t \notin DOMAIN tokenPrices' \/ tokenPrices'[t] # tokenPrices[t]) =>
            \/ lastOp'.op = "clearStaleData"
            \/ lastOp'.op = "updateFromOrderBook" /\ lastOp'.tokenId = t]_vars
  /\ [][\A t \in DOMAIN xTokenPrices :
          (t \notin DOMAIN xTokenPrices' \/ xTokenPrices'[t] # xTokenPrices[t]) =>
            (lastOp'.op = "cross.updateFromOrderBook" /\ lastOp'.tokenId = t)]_vars

\* a scan at a later clock reading than every cached price reports the
\* registered market from those prices
C33_Witness ==
  /\ lastOp.op = "scanAllMarkets"
  /\ Len(result) = 1
  /\ \A t \in {"t1", "t2"} : tokenPrices[t].lastUpdate < now
  /\ xTokenPrices # <<>>

-----------------------------------------------------------------------------
(* Properties of a load overlapped by a rebuild of the registry *)

\* the live reference price of the slug, Null when it has none or the slug
\* is not registered
LiveRef(infos, slug) ==
  IF \E i \in 1..Len(infos) : infos[i].key = slug
  THEN MapGet(infos, slug).referencePrice
  ELSE Null

-----------------------------------------------------------------------------
(* Properties of the retried loads *)

\* the registered 15m market has a reference price
HasReferencePrice == LiveRef(marketInfos, M1.slug) # Null

\* C35: while the market stays registered, once the source answers with a
\* price, repeated loadReferencePrices calls lead to a state from which the
\* market's referencePrice is non-null for good; a null answer or an
\* exception in an earlier run does not end the retries.
C35_MissingPriceRetried ==
  /\ (now >= SourceOpensAt) ~> []HasReferencePrice
  /\ [][HasReferencePrice => HasReferencePrice']_vars

\* a fetch answered null while the source had no price, the market is still
\* without one and no call is suspended: only a later load can query again
C35_Witness ==
  /\ lastOp.op = "loadReferencePrices.resume"
  /\ lastOp.answer = Null
  /\ lastOp.slug = M1.slug
  /\ pricesLoaded
  /\ runs = <<>>
  /\ ~HasReferencePrice

-----------------------------------------------------------------------------
(* Properties of the streaming client *)

\* C36: after disconnect() the client holds no socket until connect() is
\* called: no step other than a connect() call by the client's user gives
\* it a socket or sets a reconnect timeout while this.ws is null, and the
\* client is not connected while this.ws is null.
C36_StaysDisconnected ==
  /\ [][(websocket.ws = Null /\ lastOp'.op # "connect") =>
          (websocket'.ws = Null /\ timers' <= timers)]_vars
  /\ [](websocket.ws = Null => ~websocket.isConnected)

\* the client is connected through the socket it holds
Connected ==
  /\ websocket.isConnected
  /\ websocket.ws > 0
  /\ sockets[websocket.ws].readyState = "OPEN"

\* the server has the subscription of the tokens on the client's socket
Subscribed(tokenIds) == tokenIds \subseteq sockets[websocket.ws].assets

\* C37: the tokens handed to subscribeToTokens while the connection is down
\* are subscribed whenever the client is connected afterwards, from the
\* next successful reconnect on.
C37_SubscribedAfterReconnect ==
  \A tokenIds \in SocketTokenLists :
    []((/\ lastOp.op = "subscribeToTokens"
        /\ lastOp.tokenIds = tokenIds
        /\ ~lastOp.connected
        /\ websocket.ws # Null)
       => [](Connected => Subscribed(tokenIds)))

\* C38: reconnectAttempts stays within 0..maxReconnectAttempts and is 0
\* after every open; a close sets one reconnect timeout and counts one
\* attempt while fewer than maxReconnectAttempts were made since the last
\* open, and with maxReconnectAttempts made it emits 'maxReconnectAttempts'
\* and sets no timeout; nothing else sets a reconnect timeout.
C38_ReconnectBounded ==
  /\ [](websocket.reconnectAttempts \in 0..maxReconnectAttempts)
  /\ [][lastOp'.op = "open" => websocket'.reconnectAttempts = 0]_vars
  /\ [][lastOp'.op = "close" =>
          IF websocket.reconnectAttempts < maxReconnectAttempts
          THEN /\ timers' = timers + 1
               /\ websocket'.reconnectAttempts = websocket.reconnectAttempts + 1
               /\ ~lastOp'.emitted
          ELSE /\ timers' = timers
               /\ websocket'.reconnectAttempts = maxReconnectAttempts
               /\ lastOp'.emitted
               /\ emitted']_vars
  /\ [][timers' > timers => lastOp'.op = "close"]_vars
  /\ [][Len(sockets') > Len(sockets) =>
          \/ lastOp'.op = "connect"
          \/ lastOp'.op = "setTimeout.connect" /\ timers' = timers - 1]_vars

\* the tenth reconnect in a row has failed: the event is emitted and no
\* timeout is pending
C38_Witness ==
  /\ lastOp.op = "close"
  /\ lastOp.emitted
  /\ websocket.reconnectAttempts = maxReconnectAttempts
  /\ timers = 0
  /\ sockets = <<>>

-----------------------------------------------------------------------------
(* Properties of the risk manager *)

\* C39: when canTrade allows n shares, the total exposure plus n times the
\* opportunity's totalCost is within maxGlobalExposure and the market's
\* exposure plus n times totalCost is within maxPositionPerMarket; while
\* the kill switch is active canTrade allows nothing, and only
\* deactivateKillSwitch clears it.
C39_AllowedWithinLimits ==
  /\ [](lastOp.op = "canTrade" =>
         /\ result.allowed =>
              LET value == result.maxShares * lastOp.opp.totalCost
              IN /\ result.maxShares >= 1
                 /\ riskManager.totalExposure + value
                      <= riskManager.config.maxGlobalExposure
                 /\ existingExposure(riskManager, lastOp.opp.market.id) + value
                      <= riskManager.config.maxPositionPerMarket
         /\ riskManager.killSwitchActive => ~result.allowed)
  /\ [][(riskManager.killSwitchActive /\ ~riskManager'.killSwitchActive) =>
          lastOp'.op = "deactivateKillSwitch"]_vars

====
